---- MODULE Spec2Model ----
(***************************************************************************)
(* A model of the a2a hub (azs06/agents-hub).                              *)
(*                                                                         *)
(* Spec        : the hub server's task store, driven by a message/send     *)
(*               handler, tasks/cancel handlers and the A2A task-store     *)
(*               adapter.  Every call that takes a lock is one step; every *)
(*               write made without the lock is a step of its own, so that *)
(*               unsynchronised writes interleave.                         *)
(* ContextSpec : the context store, driven by concurrent message/send      *)
(*               handlers and by the ContextManager's other callers.       *)
(* PersistSpec : the task store and tasks.json, driven by Create,          *)
(*               UpdateStatus and restarts of the process.                 *)
(* ListSpec    : a client paging through the task store with               *)
(*               hub/tasks/list.                                           *)
(* ConnSpec    : one connection of the Unix-socket transport, its client   *)
(*               and Handler.Handle.                                       *)
(* OrchestratorSpec : one Execute of the static orchestrator, and          *)
(*               SetDelegates.                                             *)
(* LLMOrchestratorSpec : one Execute of the LLM orchestrator.              *)
(* RegistrySpec : local and remote agents registered in any order.         *)
(* LifeSpec    : start-up, the health checks and the shutdown steps.       *)
(* CancelSpec  : tasks/cancel and the A2A cancel on saved tasks.           *)
(* ExecutorSpec : the A2A bridge, an Execute request and cancels.          *)
(* SendSpec    : message/send with a timeout, and the health checks.       *)
(* CLISpec     : one call of a CLI agent, from its user message on.        *)
(* AdapterSpec : the A2A server storing and fetching tasks.                *)
(* SweepSpec   : the health sweep and the readers of the registry.         *)
(* FanOutSpec  : the static orchestrator and the time of its sub-calls.    *)
(* SettingsSpec : the settings mutators and the agents they configure.     *)
(* NestSpec    : an orchestrator that may be among its own delegates.      *)
(* StreamLiveSpec : the streaming execution under fair scheduling.         *)
(* ListCallSpec : hub/tasks/list with any limit and offset.                *)
(* StreamSpec  : one CLIAgent.ExecuteStreaming call, its output reader,    *)
(*               the caller that closes the output channel, and the        *)
(*               consumer.                                                 *)
(***************************************************************************)
EXTENDS Integers, Sequences, FiniteSets, TLC

\* ------------------------------------------------------------------ bounds
NumSenders == 2          \* concurrent message/send calls (ContextSpec)
NumTaskSenders == 1      \* concurrent message/send calls (Spec)
NumClientContexts == 1   \* context ids a client may name
MaxCancels == 2          \* tasks/cancel calls
MaxSaves == 1            \* TaskStoreAdapter.Save calls
MaxAddMessages == 2      \* ContextManager.AddMessage calls
MaxContextCreates == 1   \* ContextManager.Create calls made from outside message/send
MaxTaskObjects == 3      \* task objects created in one run of the task store (PersistSpec)
MaxClock == 3            \* UpdateStatus calls in one run of the task store (PersistSpec)
MaxLimit == 2            \* largest limit of a hub/tasks/list request
MaxPages == 4            \* pages a client asks for in one paging
MaxRequestLines == 3     \* request lines a client writes on one connection
MaxPromptTokens == 3     \* tokens of a prompt, besides the three-word prompts
MaxPlanTargets == 4      \* targets in a router's plan
MaxAgentObjects == 4     \* agent instances ever constructed
MaxShutdowns == 2        \* times the shutdown steps are run
MaxExecutorCancels == 1  \* HubExecutor.Cancel calls
MaxTimeoutMs == 1        \* largest configuration.timeout of a message/send
MaxParts == 2            \* parts of a user message
MaxAdapterSaves == 2     \* TaskStoreAdapter.Save calls with any state of the dialect
MaxOrchTimeout == 1      \* largest ctx.Timeout of an Orchestrator.Execute, in ticks
MaxOrchClock == 4        \* ticks of time followed during one Orchestrator.Execute
MaxCallDepth == 4        \* nested Orchestrator.Execute calls followed
MaxInputs == 1          \* texts the user types during one streaming execution
MaxListCalls == 1        \* hub/tasks/list calls with a free offset
MaxOffset == 3           \* largest limit and offset a client sends to hub/tasks/list
MaxSetDelegates == 1     \* SetDelegates calls during one Orchestrator.Execute
MaxLines == 2            \* lines the child prints in one streaming execution
OutputCap == 2           \* capacity of the stream's output channel

\* ------------------------------------------------------- program constants
ErrParseError == -32700
ErrInvalidRequest == -32600
ErrMethodNotFound == -32601
ErrInvalidParams == -32602
ErrInternalError == -32603
ErrTaskNotFound == -32001
ErrTaskNotCancelable == -32002
ErrAgentNotFound == -32003
ErrAgentUnavailable == -32004
ErrTimeout == -32007

TaskStateSubmitted == "submitted"
TaskStateWorking == "working"
TaskStateInputRequired == "input-required"
TaskStateCompleted == "completed"
TaskStateCanceled == "canceled"
TaskStateFailed == "failed"
TaskStateRejected == "rejected"
TaskStateAuthRequired == "auth-required"
TaskStateUnknown == "unknown"

TaskState ==
  { TaskStateSubmitted, TaskStateWorking, TaskStateInputRequired,
    TaskStateCompleted, TaskStateCanceled, TaskStateFailed,
    TaskStateRejected, TaskStateAuthRequired, TaskStateUnknown }

\* The terminal states of the task state machine.
TerminalStates ==
  { TaskStateCompleted, TaskStateCanceled, TaskStateFailed, TaskStateRejected }

\* ------------------------------------------------------------- identifiers
Senders == 1..NumSenders

\* utils.NewID("task") of sender p is p; one more id is known only to A2A peers.
ExternalTaskId == NumSenders + 1
TaskIds == 1..ExternalTaskId
\* The senders of Spec, and the task ids its tasks/cancel and Save calls name.
TaskSenders == 1..NumTaskSenders
NamedTaskIds == TaskSenders \cup {ExternalTaskId}

\* Context id 0 is the empty string; 1..NumClientContexts are named by
\* clients; utils.NewID("ctx") of sender p is NumClientContexts + p.
NewContextID(p) == NumClientContexts + p
ContextIds == 1..(NumClientContexts + NumSenders)

\* The registry after InitAgents and one remote discovery.
CLIAgents == {"claude-code"}
RemoteAgents == {"remote-peer"}
Registry == CLIAgents \cup RemoteAgents

\* ---------------------------------------------------------------- messages
NoMessage == [Role |-> "", Text |-> ""]            \* a nil *types.Message
AgentMessage(text) == [Role |-> "agent", Text |-> text]
ErrorTexts == {"exit status 1"}
OutputTexts == {"Hi"}

\* ------------------------------------------------------------------- state
VARIABLES
  tasks,      \* TaskManager.tasks: task id -> pointer (0: no entry)
  heap,       \* the types.Task objects, by pointer
  now,        \* the wall clock, read by time.Now()
  taskDisk,   \* tasks.json: id -> the stored record as last written (NoTask: absent)
  contexts,   \* ContextManager.contexts: id -> [Exists, History]
  ctxDisk,    \* contexts.json as last written by persistLocked
  seen,       \* per context, what the latest GetHistory returned
  pc,         \* per sender, the position in handleMessageSend
  req,        \* per sender, the request it decoded
  contextID,  \* per sender, the local contextID
  task,       \* per sender, the local *types.Task
  result,     \* per sender, what Execute returned
  resp,       \* per sender, the RPC response
  recorded,   \* per sender, the states it has written for its task, in order
  cpc,        \* tasks/cancel: position in handleTaskCancel
  cid,        \* tasks/cancel: the id asked for
  ctask,      \* tasks/cancel: the *types.Task that Get returned
  cseen,      \* tasks/cancel: the state the terminal check read
  cinflight,  \* tasks/cancel: was the task's sender inside Execute at the check
  cresp,      \* tasks/cancel: the RPC response
  canceledInExec, \* task ids canceled with success wholly inside their Execute
  ncancel, nsave, nadd, ncreate,  \* calls made so far
  mpc,        \* ExecuteStreaming: position of the calling goroutine
  rpc,        \* ExecuteStreaming: position of the output reader goroutine
  child,      \* the child process: none, running, exit0, exit1, killed
  linesLeft,  \* lines the child has still to print
  ptyBuf,     \* lines printed and not yet read from the PTY master
  ptmxClosed, \* ptmx.Close() has run
  output,     \* the output channel's buffer
  closed,     \* close(stream.Output) has run
  sent,       \* every event sent on the output channel, in order, with its sender
  panicked,   \* a goroutine sent on the closed channel
  listReq,    \* hub/tasks/list: the filters and limit of the client's paging
  pages,      \* hub/tasks/list: the pages returned so far, each a sequence of ids
  lines,      \* Unix socket: the request lines the client has written, in order
  nread,      \* Unix socket: how many of them the scanner has taken
  tpc,        \* handleConn: scan, handle, write, closed
  treq,       \* handleConn: the line being handled
  tresp,      \* handleConn: the response about to be written
  connOut,    \* Unix socket: the response lines written, in order
  handled,    \* every Handler.Handle call: request, handler return, response
  opc,        \* Orchestrator.Execute: idle, loop, done, failed, panic
  oprompt,    \* Orchestrator.Execute: the text parts of the user message, joined
  agentIDs,   \* Orchestrator.agentIDs, the delegates
  oparts,     \* Orchestrator.Execute: parts
  oi,         \* Orchestrator.Execute: i
  ocalls,     \* every message/send the orchestrator has issued, in order
  oresults,   \* Orchestrator.Execute: results
  oreply,     \* the text of the reply's status message
  nset,       \* SetDelegates calls made so far
  routerAgent,\* LLMOrchestrator.routerAgent
  oroute,     \* LLMOrchestrator: what the call to the router yields
  otargets,   \* LLMOrchestrator.Execute: targets
  agents,     \* AgentRegistry.agents: id -> the registered instance
  remoteAgents, \* RemoteAgentRegistry.remoteAgents: id -> the remote instance
  shutdowns,  \* the instances whose Shutdown has been invoked
  nagents,    \* agent instances constructed so far
  dpc,        \* DiscoverAndRegister: where its one caller is
  dagent,     \* DiscoverAndRegister: agent
  derr,       \* what the last Register or DiscoverAndRegister returned
  spc,        \* Run: start, running, stop, removePid, cancel, done, panic
  stopCh,     \* AgentRegistry.stopCh: open, closed
  pidFile,    \* does hub.pid exist
  runCtx,     \* the context of the transports: none, live, canceled
  hloop,      \* the health-check goroutine: none, waiting, stopped
  nshutdown,  \* how often the shutdown steps have been run
  health,     \* AgentInfo.Health.Status of the hub's agents
  listening,  \* per transport: off, starting, listening, failed, stopped
  epc,        \* HubExecutor.Execute: idle, working, exec, done
  ereq,       \* HubExecutor.Execute: reqCtx, the target agent and whether a task is stored
  equeue,     \* the events Execute has written to its queue, in order
  eerr,       \* HubExecutor.Execute: the error returned
  cqueue,     \* the events HubExecutor.Cancel has written, in order
  agentCancels, \* the task ids Agent.Cancel has been invoked with
  nxcancel,   \* HubExecutor.Cancel calls made so far
  timeout,    \* per sender, configuration.timeout of its request, in ms
  expired,    \* per sender, did its execution outlive the timeout
  xpc,        \* a CLI agent call: idle, running, failed, done
  xentry,     \* which of Execute, ExecuteWithArgs, ExecuteStreaming was called
  xparts,     \* ctx.UserMessage.Parts of that call
  xerr,       \* the error the call returned
  spawned,    \* did the call start the executable
  sdkSaved,   \* per task id, the state of the SDK task last saved through the adapter
  sdkGot,     \* what the latest TaskStoreAdapter.Get returned: the id and the SDK state
  nsdksave,   \* saves made through the adapter, all states allowed
  regMu,      \* holder of AgentRegistry.mu: "free" or "checkAll"
  toProbe,    \* agents the sweep in progress has yet to probe
  probe,      \* the CheckHealth call in progress, and whether it ever returns
  infoHealth, \* per agent, info.Health.Status
  lpc,        \* per reader of the registry, where its Get or List call is
  otimeout,   \* ctx.Timeout of the orchestrator's Execute, in ticks
  odeadline,  \* the deadline of callCtx
  oclock,     \* the time, in ticks
  osub,       \* the latest sub-call: when it started and the timeout it was given
  settings,   \* per backend, the stored settings (s.settings)
  defaultConfig, \* per backend, the defaultConfig of its registered agent
  settingsDisk, \* settings.json
  npc,        \* the message/send addressed to the orchestrator: "idle", "running", "returned"
  ndelegates, \* the delegate list of the orchestrator
  frames,     \* the Execute calls of the orchestrator in progress, outermost first
  fpc,        \* the input forwarder: "none", "select" or "done"
  ninput,     \* texts the user has typed into the input channel
  lcall,      \* the limit and offset of the latest hub/tasks/list
  lreply,     \* the list it returned
  lcrashed,   \* the handler has panicked
  nlist       \* hub/tasks/list calls with a free offset so far

storeVars == <<tasks, heap, now, taskDisk>>
ctxVars == <<contexts, ctxDisk, seen>>
sendVars == <<pc, req, contextID, task, result, resp, recorded>>
cancelVars == <<cpc, cid, ctask, cseen, cinflight, cresp, canceledInExec, ncancel>>
countVars == <<nsave, nadd, ncreate>>
hubVars == <<storeVars, ctxVars, sendVars, cancelVars, countVars>>
streamVars == <<mpc, rpc, child, linesLeft, ptyBuf, ptmxClosed, output, closed, sent,
                panicked>>
listVars == <<listReq, pages>>
connVars == <<lines, nread, tpc, treq, tresp, connOut, handled>>
orchVars == <<opc, oprompt, agentIDs, oparts, oi, ocalls, oresults, oreply, nset,
              routerAgent, oroute, otargets>>
registryVars == <<agents, remoteAgents, shutdowns, nagents, dpc, dagent, derr>>
lifeVars == <<spc, stopCh, pidFile, runCtx, hloop, nshutdown, health, listening>>
executorVars == <<epc, ereq, equeue, eerr, cqueue, agentCancels, nxcancel>>
deadlineVars == <<timeout, expired>>
cliVars == <<xpc, xentry, xparts, xerr, spawned>>
adapterVars == <<sdkSaved, sdkGot, nsdksave>>
sweepVars == <<regMu, toProbe, probe, infoHealth, lpc>>
fanVars == <<otimeout, odeadline, oclock, osub>>
settingsVars == <<settings, defaultConfig, settingsDisk>>
nestVars == <<npc, ndelegates, frames>>
forwardVars == <<fpc, ninput>>
listCallVars == <<lcall, lreply, lcrashed, nlist>>
vars == <<hubVars, streamVars, listVars, connVars, orchVars, registryVars, lifeVars,
    executorVars, deadlineVars, cliVars, adapterVars, sweepVars, fanVars, settingsVars,
    nestVars, forwardVars, listCallVars>>

\* What the steps of each component leave alone.
nonHubVars == <<streamVars, listVars, connVars, orchVars, registryVars, lifeVars,
    executorVars, deadlineVars, cliVars, adapterVars, sweepVars, fanVars, settingsVars,
    nestVars, forwardVars, listCallVars>>
nonStreamVars == <<hubVars, listVars, connVars, orchVars, registryVars, lifeVars,
    executorVars, deadlineVars, cliVars, adapterVars, sweepVars, fanVars, settingsVars,
    nestVars, forwardVars, listCallVars>>
nonListVars == <<ctxVars, sendVars, cancelVars, countVars, streamVars, connVars, orchVars,
                 registryVars, lifeVars, executorVars, deadlineVars, cliVars, adapterVars,
    sweepVars, fanVars, settingsVars, nestVars, forwardVars, listCallVars>>
nonConnVars == <<hubVars, streamVars, listVars, orchVars, registryVars, lifeVars,
    executorVars, deadlineVars, cliVars, adapterVars, sweepVars, fanVars, settingsVars,
    nestVars, forwardVars, listCallVars>>
nonOrchVars == <<hubVars, streamVars, listVars, connVars, registryVars, lifeVars,
    executorVars, deadlineVars, cliVars, adapterVars, sweepVars, fanVars, settingsVars,
    nestVars, forwardVars, listCallVars>>
nonOrchFanVars == <<hubVars, streamVars, listVars, connVars, registryVars, lifeVars,
    executorVars, deadlineVars, cliVars, adapterVars, sweepVars, settingsVars, nestVars,
    forwardVars, listCallVars>>
nonRegistryVars == <<hubVars, streamVars, listVars, connVars, orchVars, lifeVars,
    executorVars, deadlineVars, cliVars, adapterVars, sweepVars, fanVars, settingsVars,
    nestVars, forwardVars, listCallVars>>
nonLifeVars == <<hubVars, streamVars, listVars, connVars, orchVars, registryVars,
    executorVars, deadlineVars, cliVars, adapterVars, sweepVars, fanVars, settingsVars,
    nestVars, forwardVars, listCallVars>>
nonExecutorVars == <<hubVars, streamVars, listVars, connVars, orchVars, registryVars, lifeVars,
    deadlineVars, cliVars, adapterVars, sweepVars, fanVars, settingsVars, nestVars,
    forwardVars, listCallVars>>
nonDeadlineVars == <<hubVars, streamVars, listVars, connVars, orchVars,
    registryVars, lifeVars, executorVars, cliVars, adapterVars, sweepVars, fanVars,
    settingsVars, nestVars, forwardVars, listCallVars>>
nonHubDeadlineVars == <<streamVars, listVars, connVars, orchVars, registryVars, lifeVars,
    executorVars, cliVars, adapterVars, sweepVars, fanVars, settingsVars, nestVars,
    forwardVars, listCallVars>>
nonCliVars == <<hubVars, streamVars, listVars, connVars, orchVars,
    registryVars, lifeVars, executorVars, deadlineVars, adapterVars, sweepVars, fanVars,
    settingsVars, nestVars, forwardVars, listCallVars>>
nonAdapterVars == <<hubVars, streamVars, listVars, connVars, orchVars, registryVars,
    lifeVars, executorVars, deadlineVars, cliVars, sweepVars, fanVars, settingsVars, nestVars,
    forwardVars, listCallVars>>
nonHubAdapterVars == <<streamVars, listVars, connVars, orchVars, registryVars, lifeVars,
    executorVars, deadlineVars, cliVars, sweepVars, fanVars, settingsVars, nestVars,
    forwardVars, listCallVars>>
nonSweepVars == <<hubVars, streamVars, listVars, connVars, orchVars, registryVars,
    lifeVars, executorVars, deadlineVars, cliVars, adapterVars, fanVars, settingsVars,
    nestVars, forwardVars, listCallVars>>
nonFanVars == <<hubVars, streamVars, listVars, connVars, orchVars, registryVars, lifeVars,
    executorVars, deadlineVars, cliVars, adapterVars, sweepVars, settingsVars, nestVars,
    forwardVars, listCallVars>>
nonSettingsVars == <<hubVars, streamVars, listVars, connVars, orchVars, registryVars, lifeVars,
    executorVars, deadlineVars, cliVars, adapterVars, sweepVars, fanVars, nestVars,
    forwardVars, listCallVars>>
nonNestVars == <<hubVars, streamVars, listVars, connVars, orchVars, registryVars, lifeVars, executorVars,
    deadlineVars, cliVars, adapterVars, sweepVars, fanVars, settingsVars, forwardVars,
    listCallVars>>
nonForwardVars == <<hubVars, streamVars, listVars, connVars, orchVars, registryVars, lifeVars, executorVars,
    deadlineVars, cliVars, adapterVars, sweepVars, fanVars, settingsVars, nestVars,
    listCallVars>>
nonListCallVars == <<hubVars, streamVars, listVars, connVars, orchVars, registryVars, lifeVars, executorVars, deadlineVars,
    cliVars, adapterVars, sweepVars, fanVars, settingsVars, nestVars, forwardVars>>

NoTask == [State |-> "", Message |-> NoMessage, Timestamp |-> 0, ContextID |-> 0]
NoRequest == [Kind |-> "", HasMetadata |-> FALSE, TargetAgent |-> "", ContextID |-> 0]
NoResult == [Err |-> "", State |-> "", Message |-> NoMessage, Timestamp |-> 0]
NoResponse == [Code |-> 0, Text |-> "", Task |-> NoTask]

\* What a client may send as message/send params: the well-formed requests,
\* and one request for each way of failing the handler's checks.
Requests ==
  [ Kind : {"message"}, HasMetadata : {TRUE}, TargetAgent : Registry,
    ContextID : 0..NumClientContexts ]
  \cup
  { [Kind |-> "task", HasMetadata |-> TRUE, TargetAgent |-> "claude-code", ContextID |-> 0],
    [Kind |-> "message", HasMetadata |-> FALSE, TargetAgent |-> "", ContextID |-> 0],
    [Kind |-> "message", HasMetadata |-> TRUE, TargetAgent |-> "", ContextID |-> 0] }
  \cup
  [ Kind : {"message"}, HasMetadata : {TRUE}, TargetAgent : {"ghost"},
    ContextID : 0..NumClientContexts ]

\* ------------------------------------------------------------ TaskManager
\* TaskManager.Get
Get(id) == tasks[id]

Stored(id) == heap[tasks[id]]

\* json.Marshal of a string: bytes that are not valid UTF-8 are written as
\* U+FFFD.
ToValidUTF8(text) == IF text = "<0xFF>" THEN "<U+FFFD>" ELSE text

\* json.Marshal of a *types.Message: nil is omitted.
MarshalMessage(msg) ==
  IF msg = NoMessage THEN NoMessage ELSE [msg EXCEPT !.Text = ToValidUTF8(@)]

\* json.Marshal of a *types.Task; json.Unmarshal reads back what was written.
MarshalTask(t) == [t EXCEPT !.Message = MarshalMessage(@)]

\* utils.WriteFileAtomic: the file's content is replaced as a whole.
WriteFileAtomic(data) == taskDisk' = data

\* TaskManager.persistLocked: the snapshot of every task in the map.
TaskManagerPersistLocked ==
  WriteFileAtomic([id \in TaskIds |->
                     IF tasks'[id] = 0 THEN NoTask ELSE MarshalTask(heap'[tasks'[id]])])

\* TaskManager.Create: the map entry is replaced by the caller's object.
TaskManagerCreate(id, obj) ==
  /\ heap' = Append(heap, obj)
  /\ tasks' = [tasks EXCEPT ![id] = Len(heap) + 1]
  /\ TaskManagerPersistLocked

\* TaskManager.UpdateStatus: no check of the current state.
UpdateStatus(id, state, msg) ==
  IF tasks[id] = 0
  THEN UNCHANGED <<tasks, heap, now, taskDisk>>
  ELSE /\ heap' = [heap EXCEPT ![tasks[id]] =
                     [@ EXCEPT !.State = state, !.Message = msg, !.Timestamp = now]]
       /\ now' = now + 1
       /\ UNCHANGED tasks
       /\ TaskManagerPersistLocked

\* --------------------------------------------------------- ContextManager
NoContext == [Exists |-> FALSE, History |-> <<>>]

\* ContextManager.persistLocked
persistLocked == ctxDisk' = contexts'

\* ContextManager.Create: a fresh Context replaces whatever the id held.
ContextManagerCreate(id) ==
  /\ contexts' = [contexts EXCEPT ![id] = [Exists |-> TRUE, History |-> <<>>]]
  /\ persistLocked

\* ContextManager.GetHistory
GetHistory(id) == IF contexts[id].Exists THEN contexts[id].History ELSE <<>>

\* ContextManager.AddMessage: appends, creating the context when it is absent.
AddMessage(id, msg) ==
  /\ contexts' = [contexts EXCEPT ![id] =
                    [Exists |-> TRUE, History |-> Append(GetHistory(id), msg)]]
  /\ persistLocked

\* ContextManager.Load: every stored context replaces the entry of its id.
Load ==
  contexts' = [id \in ContextIds |->
                 IF ctxDisk[id].Exists THEN ctxDisk[id] ELSE contexts[id]]

\* -------------------------------------------------------------- the agents
\* What Execute of the agent can return: an error, or a result task.
\* CLIAgent.Execute: an error, or a completed task carrying the output.
CLIAgentExecute ==
  [ Err : ErrorTexts, State : {""}, Message : {NoMessage}, Timestamp : {0} ]
  \cup
  [ Err : {""}, State : {TaskStateCompleted},
    Message : {AgentMessage(t) : t \in OutputTexts}, Timestamp : {now} ]

\* The states of the A2A dialect that remote peers report in this model, and
\* those of the tasks the A2A server saves.
RemoteTaskStates ==
  {"working", "input-required", "completed", "canceled", "rejected", "unspecified"}
SavedTaskStates == {"working", "completed", "rejected"}

\* fromSDKTaskState: a state of the dialect has its local namesake, anything
\* else is unknown.
fromSDKTaskState(state) == IF state \in TaskState THEN state ELSE TaskStateUnknown

\* RemoteAgent.Execute: an error, a message (a completed task), or the remote
\* task with its state mapped; the remote tasks carry a status message or
\* none, and no timestamp.
RemoteAgentExecute ==
  [ Err : ErrorTexts, State : {TaskStateFailed}, Message : {NoMessage},
    Timestamp : {now} ]
  \cup
  [ Err : {""}, State : {TaskStateCompleted},
    Message : {AgentMessage(t) : t \in OutputTexts}, Timestamp : {now} ]
  \cup
  [ Err : {""}, State : {fromSDKTaskState(s) : s \in RemoteTaskStates},
    Message : {NoMessage} \cup {AgentMessage(t) : t \in OutputTexts},
    Timestamp : {0} ]

Execute(agent) == IF agent \in CLIAgents THEN CLIAgentExecute ELSE RemoteAgentExecute

\* ----------------------------------------------------- handleMessageSend
RPCError(code, text) == [Code |-> code, Text |-> text, Task |-> NoTask]

\* Checks that do not look the target up in the registry.
ValidateSendNoLookup(r) ==
  IF r.Kind # "message" THEN RPCError(ErrInvalidParams, "message required")
  ELSE IF ~r.HasMetadata \/ r.TargetAgent = ""
    THEN RPCError(ErrInvalidParams, "metadata.targetAgent required")
  ELSE NoResponse

\* The checks of handleMessageSend before it touches a store; Code 0: passed.
ValidateSend(r) ==
  IF r.Kind # "message" THEN RPCError(ErrInvalidParams, "message required")
  ELSE IF ~r.HasMetadata
    THEN RPCError(ErrInvalidParams, "metadata.targetAgent required")
  ELSE IF r.TargetAgent = ""
    THEN RPCError(ErrInvalidParams, "metadata.targetAgent required")
  ELSE IF r.TargetAgent \notin Registry
    THEN RPCError(ErrAgentNotFound, "agent not found")
  ELSE NoResponse

\* After the handler has returned, only the error and the state of the
\* agent's result are remembered.
ReturnedResult(r) == [NoResult EXCEPT !.Err = r.Err, !.State = r.State]

\* Decode and validate the params, look the agent up.
handleMessageSend_validate(p) ==
  /\ pc[p] = "start"
  /\ \E r \in Requests :
       /\ req' = [req EXCEPT ![p] = r]
       /\ IF ValidateSend(r).Code # 0
          THEN /\ resp' = [resp EXCEPT ![p] = ValidateSend(r)]
               /\ pc' = [pc EXCEPT ![p] = "done"]
               /\ UNCHANGED contextID
          ELSE /\ contextID' = [contextID EXCEPT ![p] = r.ContextID]
               /\ pc' = [pc EXCEPT ![p] = IF r.ContextID = 0 THEN "newctx" ELSE "getctx"]
               /\ UNCHANGED resp
  /\ UNCHANGED <<storeVars, ctxVars, task, result, recorded, cancelVars, countVars>>
  /\ UNCHANGED nonHubVars

\* contextID == "": generate an id and create the context.
handleMessageSend_newContext(p) ==
  /\ pc[p] = "newctx"
  /\ contextID' = [contextID EXCEPT ![p] = NewContextID(p)]
  /\ ContextManagerCreate(NewContextID(p))
  /\ pc' = [pc EXCEPT ![p] = "getctx"]
  /\ UNCHANGED <<storeVars, seen, req, task, result, resp, recorded, cancelVars, countVars>>
  /\ UNCHANGED nonHubVars

\* A handler that takes the named context to exist.
handleMessageSend_getContextAssumed(p) ==
  /\ pc[p] = "getctx"
  /\ pc' = [pc EXCEPT ![p] = "create"]
  /\ UNCHANGED <<storeVars, ctxVars, req, contextID, task, result, resp, recorded,
                 cancelVars, countVars>>
  /\ UNCHANGED nonHubVars

\* contexts.Get(contextID): the existence test, under the read lock.
handleMessageSend_getContext(p) ==
  /\ pc[p] = "getctx"
  /\ pc' = [pc EXCEPT ![p] =
              IF contexts[contextID[p]].Exists THEN "create" ELSE "createctx"]
  /\ UNCHANGED <<storeVars, ctxVars, req, contextID, task, result, resp, recorded,
                 cancelVars, countVars>>
  /\ UNCHANGED nonHubVars

\* contexts.Create(contextID), after the test found no context.
handleMessageSend_createContext(p) ==
  /\ pc[p] = "createctx"
  /\ ContextManagerCreate(contextID[p])
  /\ pc' = [pc EXCEPT ![p] = "create"]
  /\ UNCHANGED <<storeVars, seen, req, contextID, task, result, resp, recorded,
                 cancelVars, countVars>>
  /\ UNCHANGED nonHubVars

\* tasks.Create(task) with status submitted.
handleMessageSend_createTask(p) ==
  /\ pc[p] = "create"
  /\ TaskManagerCreate(p, [State |-> TaskStateSubmitted, Message |-> NoMessage,
                           Timestamp |-> now, ContextID |-> contextID[p]])
  /\ now' = now + 1
  /\ task' = [task EXCEPT ![p] = Len(heap) + 1]
  /\ recorded' = [recorded EXCEPT ![p] = Append(@, TaskStateSubmitted)]
  /\ pc' = [pc EXCEPT ![p] = "working"]
  /\ UNCHANGED <<ctxVars, req, contextID, result, resp, cancelVars, countVars>>
  /\ UNCHANGED nonHubVars

\* A handler that invokes Execute without moving the task to working.
handleMessageSend_workingSkipped(p) ==
  /\ pc[p] = "working"
  /\ pc' = [pc EXCEPT ![p] = "exec"]
  /\ UNCHANGED <<storeVars, ctxVars, req, contextID, task, result, resp, recorded,
                 cancelVars, countVars>>
  /\ UNCHANGED nonHubVars

\* tasks.UpdateStatus(taskID, working, nil); Execute is invoked next.
handleMessageSend_working(p) ==
  /\ pc[p] = "working"
  /\ UpdateStatus(p, TaskStateWorking, NoMessage)
  /\ recorded' = [recorded EXCEPT ![p] = Append(@, TaskStateWorking)]
  /\ pc' = [pc EXCEPT ![p] = "exec"]
  /\ UNCHANGED <<ctxVars, req, contextID, task, result, resp, cancelVars, countVars>>
  /\ UNCHANGED nonHubVars

\* info.Agent.Execute returns.
handleMessageSend_execute(p) ==
  /\ pc[p] = "exec"
  /\ \E r \in Execute(req[p].TargetAgent) :
       /\ result' = [result EXCEPT ![p] = r]
       /\ pc' = [pc EXCEPT ![p] = IF r.Err # "" THEN "fail" ELSE "mergeState"]
  /\ UNCHANGED <<storeVars, ctxVars, req, contextID, task, resp, recorded,
                 cancelVars, countVars>>
  /\ UNCHANGED nonHubVars

\* A handler that answers InternalError without recording the failure.
handleMessageSend_failUnrecorded(p) ==
  /\ pc[p] = "fail"
  /\ resp' = [resp EXCEPT ![p] = RPCError(ErrInternalError, result[p].Err)]
  /\ result' = [result EXCEPT ![p] = ReturnedResult(result[p])]
  /\ pc' = [pc EXCEPT ![p] = "done"]
  /\ UNCHANGED <<storeVars, ctxVars, req, contextID, task, recorded, cancelVars,
                 countVars>>
  /\ UNCHANGED nonHubVars

\* err != nil: record failed with the error text, answer InternalError.
handleMessageSend_fail(p) ==
  /\ pc[p] = "fail"
  /\ UpdateStatus(p, TaskStateFailed, AgentMessage(result[p].Err))
  /\ recorded' = [recorded EXCEPT ![p] = Append(@, TaskStateFailed)]
  /\ resp' = [resp EXCEPT ![p] = RPCError(ErrInternalError, result[p].Err)]
  /\ result' = [result EXCEPT ![p] = ReturnedResult(result[p])]
  /\ pc' = [pc EXCEPT ![p] = "done"]
  /\ UNCHANGED <<ctxVars, req, contextID, task, cancelVars, countVars>>
  /\ UNCHANGED nonHubVars

\* task.Status = result.Task.Status: three words written through the local
\* pointer without the lock.
handleMessageSend_mergeState(p) ==
  /\ pc[p] = "mergeState"
  /\ heap' = [heap EXCEPT ![task[p]].State = result[p].State]
  /\ pc' = [pc EXCEPT ![p] = "mergeMessage"]
  /\ UNCHANGED <<tasks, now, taskDisk, ctxVars, req, contextID, task, result, resp, recorded,
                 cancelVars, countVars>>
  /\ UNCHANGED nonHubVars

handleMessageSend_mergeMessage(p) ==
  /\ pc[p] = "mergeMessage"
  /\ heap' = [heap EXCEPT ![task[p]].Message = result[p].Message]
  /\ pc' = [pc EXCEPT ![p] = "mergeTimestamp"]
  /\ UNCHANGED <<tasks, now, taskDisk, ctxVars, req, contextID, task, result, resp, recorded,
                 cancelVars, countVars>>
  /\ UNCHANGED nonHubVars

handleMessageSend_mergeTimestamp(p) ==
  /\ pc[p] = "mergeTimestamp"
  /\ heap' = [heap EXCEPT ![task[p]].Timestamp = result[p].Timestamp,
                          ![task[p]].ContextID = contextID[p]]
  /\ pc' = [pc EXCEPT ![p] = "update"]
  /\ UNCHANGED <<tasks, now, taskDisk, ctxVars, req, contextID, task, result, resp, recorded,
                 cancelVars, countVars>>
  /\ UNCHANGED nonHubVars

\* tasks.UpdateStatus(taskID, task.Status.State, task.Status.Message): the
\* arguments are read back from the local pointer; then the task is returned.
handleMessageSend_update(p) ==
  /\ pc[p] = "update"
  /\ UpdateStatus(p, heap[task[p]].State, heap[task[p]].Message)
  /\ recorded' = [recorded EXCEPT ![p] = Append(@, heap[task[p]].State)]
  /\ resp' = [resp EXCEPT ![p] = [Code |-> 0, Text |-> "", Task |-> heap'[task[p]]]]
  /\ result' = [result EXCEPT ![p] = ReturnedResult(result[p])]
  /\ pc' = [pc EXCEPT ![p] = "done"]
  /\ UNCHANGED <<ctxVars, req, contextID, task, cancelVars, countVars>>
  /\ UNCHANGED nonHubVars

\* ------------------------------------------------------- handleTaskCancel
CancelTaskOK == [Code |-> 0, Text |-> "canceled", Task |-> NoTask]  \* {canceled: true}

\* The states handleTaskCancel refuses to cancel.
NotCancelable(state) ==
  state \in {TaskStateCompleted, TaskStateFailed, TaskStateCanceled}

IsInExecute(id) == id \in Senders /\ pc[id] = "exec"

\* tasks.Get(id), then the test of task.Status.State read through the pointer.
handleTaskCancel_check ==
  /\ cpc = "idle"
  /\ ncancel < MaxCancels
  /\ ncancel' = ncancel + 1
  /\ \E id \in NamedTaskIds :
       /\ cid' = id
       /\ IF Get(id) = 0
          THEN /\ cresp' = RPCError(ErrTaskNotFound, "task not found")
               /\ UNCHANGED <<cpc, ctask>>
               /\ cseen' = ""
               /\ cinflight' = FALSE
          ELSE /\ ctask' = Get(id)
               /\ cseen' = Stored(id).State
               /\ cinflight' = IsInExecute(id)
               /\ IF NotCancelable(Stored(id).State)
                  THEN /\ cresp' = RPCError(ErrTaskNotCancelable, "task not cancelable")
                       /\ UNCHANGED cpc
                  ELSE /\ cresp' = NoResponse
                       /\ cpc' = "writeState"
  /\ UNCHANGED <<storeVars, ctxVars, sendVars, canceledInExec, countVars>>
  /\ UNCHANGED nonHubVars

\* task.Status.State = canceled, written without the lock.
handleTaskCancel_writeState ==
  /\ cpc = "writeState"
  /\ heap' = [heap EXCEPT ![ctask].State = TaskStateCanceled]
  /\ cpc' = "writeTimestamp"
  /\ UNCHANGED <<tasks, now, taskDisk, ctxVars, sendVars, cid, ctask, cseen, cinflight, cresp,
                 canceledInExec, ncancel, countVars>>
  /\ UNCHANGED nonHubVars

\* task.Status.Timestamp = now, written without the lock; {canceled: true}.
handleTaskCancel_writeTimestamp ==
  /\ cpc = "writeTimestamp"
  /\ heap' = [heap EXCEPT ![ctask].Timestamp = now]
  /\ now' = now + 1
  /\ cresp' = CancelTaskOK
  /\ canceledInExec' =
       IF cinflight /\ IsInExecute(cid) THEN canceledInExec \cup {cid}
       ELSE canceledInExec
  /\ cpc' = "idle"
  /\ UNCHANGED <<tasks, taskDisk, ctxVars, sendVars, cid, ctask, cseen, cinflight, ncancel,
                 countVars>>
  /\ UNCHANGED nonHubVars

\* ------------------------------------------------------- TaskStoreAdapter
\* TaskStoreAdapter.Save: the converted task goes to TaskManager.Create.
Save ==
  /\ nsave < MaxSaves
  /\ nsave' = nsave + 1
  /\ \E id \in NamedTaskIds, state \in SavedTaskStates :
       TaskManagerCreate(id, [State |-> fromSDKTaskState(state), Message |-> NoMessage,
                              Timestamp |-> now, ContextID |-> 1])
  /\ UNCHANGED <<now, ctxVars, sendVars, cancelVars, nadd, ncreate>>
  /\ UNCHANGED nonHubVars

\* ------------------------------------------------ task store, called directly
\* Message texts a caller may pass: valid UTF-8, and bytes that are not.
PersistTexts == {"Hi", "<0xFF>"}

PersistStates == {TaskStateWorking, TaskStateCompleted}

\* TaskManager.Create with a task of the caller's making.
TaskCreateCall ==
  /\ Len(heap) < MaxTaskObjects
  /\ \E id \in TaskIds, state \in PersistStates,
        msg \in {NoMessage} \cup {AgentMessage(t) : t \in PersistTexts} :
       TaskManagerCreate(id, [State |-> state, Message |-> msg,
                              Timestamp |-> now, ContextID |-> 1])
  /\ UNCHANGED <<now, ctxVars, sendVars, cancelVars, countVars>>
  /\ UNCHANGED nonHubVars

\* TaskManager.UpdateStatus on a stored task.
UpdateStatusCall ==
  /\ now < MaxClock
  /\ \E id \in TaskIds, state \in PersistStates,
        msg \in {NoMessage} \cup {AgentMessage(t) : t \in PersistTexts} :
       /\ Get(id) # 0
       /\ UpdateStatus(id, state, msg)
  /\ UNCHANGED <<ctxVars, sendVars, cancelVars, countVars>>
  /\ UNCHANGED nonHubVars

\* The ids in tasks.json, and the place of each among them.
LoadedIds == {id \in TaskIds : taskDisk[id] # NoTask}

LoadedRank(id) == Cardinality({j \in LoadedIds : j <= id})

\* json.Unmarshal of a stored task: the record as it was written.
LoadedTask(id) == taskDisk[id]

\* A fresh process: NewTaskManager, then TaskManager.Load puts every task of
\* tasks.json into the empty map.
TaskManagerLoad ==
  /\ heap' = [i \in 1..Cardinality(LoadedIds) |->
                LoadedTask(CHOOSE id \in LoadedIds : LoadedRank(id) = i)]
  /\ tasks' = [id \in TaskIds |-> IF id \in LoadedIds THEN LoadedRank(id) ELSE 0]
  /\ UNCHANGED <<now, taskDisk>>

LoadState ==
  /\ Load
  /\ TaskManagerLoad
  /\ UNCHANGED <<ctxDisk, seen, sendVars, cancelVars, countVars>>
  /\ UNCHANGED nonHubVars

\* ------------------------------------------------------------ hub/tasks/list
\* The ids of the stored tasks that pass the filters ("" and 0: no filter).
Matching(ctx, state) ==
  {id \in TaskIds :
     /\ Get(id) # 0
     /\ ctx = 0 \/ Stored(id).ContextID = ctx
     /\ state = "" \/ Stored(id).State = state}

\* for _, task := range tm.tasks: every order of the map's entries.
RangeOrders(ids) ==
  {o \in [1..Cardinality(ids) -> ids] : \A i, j \in DOMAIN o : o[i] = o[j] => i = j}

\* TaskManager.List, given the order in which the map was ranged over.
List(order, limit, offset) ==
  IF offset >= Len(order)
  THEN <<>>
  ELSE SubSeq(order, offset + 1,
              IF limit > 0 /\ offset + limit < Len(order)
              THEN offset + limit ELSE Len(order))

\* handleTasksList: the client's next page, at offset 0, limit, 2*limit, ...
handleTasksList ==
  /\ Len(pages) < MaxPages
  /\ \E order \in RangeOrders(Matching(listReq.ContextID, listReq.State)) :
       pages' = Append(pages, List(order, listReq.Limit, Len(pages) * listReq.Limit))
  /\ UNCHANGED <<storeVars, listReq>>
  /\ UNCHANGED nonListVars

\* ------------------------------------------------------- Handler.Handle
\* The methods of Server.RegisterHandlers.
Methods == {"message/send", "tasks/get", "tasks/cancel"}

\* What a registered handler function returns: a result, or an *RPCError.
NoReturn == [Result |-> "", Err |-> 0]

HandlerReturns == {[Result |-> "ok", Err |-> 0], [Result |-> "", Err |-> ErrInvalidParams]}

Response(code, res, id) == [Code |-> code, Result |-> res, ID |-> id]

\* Does Handle call the method's function?
Invokes(r) == r.JSONRPC = "2.0" /\ r.Method # "" /\ r.Method \in Methods

\* Handle with the checks in the other order: the method is looked up first.
HandleLookupFirst(r, ret) ==
  IF r.Method \notin Methods
  THEN Response(ErrMethodNotFound, "", r.ID)
  ELSE IF r.JSONRPC # "2.0" \/ r.Method = ""
  THEN Response(ErrInvalidRequest, "", r.ID)
  ELSE IF ret.Err # 0
  THEN Response(ret.Err, "", r.ID)
  ELSE Response(0, ret.Result, r.ID)

\* Handler.Handle; ret is what the method's function returns when called.
Handle(r, ret) ==
  IF r.JSONRPC # "2.0" \/ r.Method = ""
  THEN Response(ErrInvalidRequest, "", r.ID)
  ELSE IF r.Method \notin Methods
  THEN Response(ErrMethodNotFound, "", r.ID)
  ELSE IF ret.Err # 0
  THEN Response(ret.Err, "", r.ID)
  ELSE Response(0, ret.Result, r.ID)

\* ------------------------------------------------ UnixTransport.handleConn
\* bufio.NewScanner's token limit, in KiB.
MaxScanTokenSize == 64

NoLine == [Size |-> 0, JSON |-> FALSE, JSONRPC |-> "", Method |-> "", ID |-> 0]

\* The lines a client may write as its k-th: text that is not JSON; requests
\* of 1 KiB with and without version, method and id (0: no id); and requests
\* of 100 KiB and 2 MiB.
RequestLines(k) ==
  {[NoLine EXCEPT !.Size = 1]}
    \cup [Size : {1}, JSON : {TRUE}, JSONRPC : {"2.0", "1.0"},
          Method : {"", "tasks/get", "no/such"}, ID : {0, k}]
    \cup [Size : {100, 2048}, JSON : {TRUE}, JSONRPC : {"2.0"},
          Method : {"tasks/get"}, ID : {k}]

\* The client writes its next request line.
ClientWrites ==
  /\ tpc # "closed"
  /\ Len(lines) < MaxRequestLines
  /\ \E l \in RequestLines(Len(lines) + 1) : lines' = Append(lines, l)
  /\ UNCHANGED <<nread, tpc, treq, tresp, connOut, handled>>
  /\ UNCHANGED nonConnVars

\* scanner.Scan(): the next line; a line over the token limit ends the loop,
\* and the deferred conn.Close() runs.
handleConn_scan ==
  /\ tpc = "scan"
  /\ nread < Len(lines)
  /\ nread' = nread + 1
  /\ LET l == lines[nread + 1]
     IN IF l.Size > MaxScanTokenSize
        THEN tpc' = "closed" /\ UNCHANGED treq
        ELSE tpc' = "handle" /\ treq' = l
  /\ UNCHANGED <<lines, tresp, connOut, handled>>
  /\ UNCHANGED nonConnVars

\* scanner.Scan() at the end of the client's input.
handleConn_eof ==
  /\ tpc = "scan"
  /\ nread = Len(lines)
  /\ tpc' = "closed"
  /\ UNCHANGED <<lines, nread, treq, tresp, connOut, handled>>
  /\ UNCHANGED nonConnVars

\* json.Unmarshal of the line, then the ParseError response or Handle.
handleConn_handle ==
  /\ tpc = "handle"
  /\ IF ~treq.JSON
     THEN /\ tresp' = Response(ErrParseError, "", 0)
          /\ UNCHANGED handled
     ELSE \E ret \in IF Invokes(treq) THEN HandlerReturns ELSE {NoReturn} :
            /\ tresp' = Handle(treq, ret)
            /\ handled' = Append(handled, [Req |-> treq, Invoked |-> Invokes(treq),
                                           Ret |-> ret, Resp |-> tresp'])
  /\ tpc' = "write"
  /\ UNCHANGED <<lines, nread, treq, connOut>>
  /\ UNCHANGED nonConnVars

\* conn.Write of the response line.
handleConn_write ==
  /\ tpc = "write"
  /\ connOut' = Append(connOut, tresp)
  /\ tpc' = "scan"
  /\ UNCHANGED <<lines, nread, treq, tresp, handled>>
  /\ UNCHANGED nonConnVars

\* ------------------------------------------------------------ Orchestrator
\* A text is a sequence of tokens: words, and the separators splitPrompt
\* looks for.  "\n" and " " are white space.
Words == {"a", "b", "c"}

Separators == {"\n", ";", " and "}

IsSpace(tok) == tok \in {"\n", " "}

\* strings.TrimSpace
RECURSIVE TrimLeft(_)
TrimLeft(t) == IF t # <<>> /\ IsSpace(Head(t)) THEN TrimLeft(Tail(t)) ELSE t

RECURSIVE TrimRight(_)
TrimRight(t) ==
  IF t # <<>> /\ IsSpace(t[Len(t)]) THEN TrimRight(SubSeq(t, 1, Len(t) - 1)) ELSE t

TrimSpace(t) == TrimRight(TrimLeft(t))

\* strings.Contains
Contains(t, sep) == \E i \in 1..Len(t) : t[i] = sep

\* strings.Split: the pieces of t between the occurrences of sep.
RECURSIVE Split(_, _)
Split(t, sep) ==
  IF ~Contains(t, sep)
  THEN <<t>>
  ELSE LET i == CHOOSE k \in 1..Len(t) : t[k] = sep /\ \A j \in 1..(k - 1) : t[j] # sep
       IN <<SubSeq(t, 1, i - 1)>> \o Split(SubSeq(t, i + 1, Len(t)), sep)

\* strings.Join
RECURSIVE Join(_, _)
Join(ts, sep) ==
  IF ts = <<>> THEN <<>>
  ELSE IF Len(ts) = 1 THEN ts[1]
  ELSE ts[1] \o <<sep>> \o Join(Tail(ts), sep)

\* compactStrings: every item trimmed, the empty ones dropped.
RECURSIVE compactStrings(_)
compactStrings(items) ==
  IF items = <<>> THEN <<>>
  ELSE LET trimmed == TrimSpace(Head(items))
       IN (IF trimmed = <<>> THEN <<>> ELSE <<trimmed>>) \o compactStrings(Tail(items))

\* splitPrompt: on the first kind of separator the prompt contains.
splitPrompt(prompt) ==
  IF Contains(prompt, "\n") THEN compactStrings(Split(prompt, "\n"))
  ELSE IF Contains(prompt, ";") THEN compactStrings(Split(prompt, ";"))
  ELSE IF Contains(prompt, " and ") THEN compactStrings(Split(prompt, " and "))
  ELSE <<prompt>>

\* delegates[0] for every fragment.
DelegateFirst(delegates, i) == delegates[1]

\* delegates[i % len(delegates)], i counted from 0.
DelegateFor(delegates, i) == delegates[(i % Len(delegates)) + 1]

\* What a sub-call yields as the body of its block: the task's text, or
\* "error: ..." when the call, the response or its decoding failed.
SubCallBodies == {<<"done">>, <<"error: ", "failed">>}

\* Time is counted in ticks of five minutes.
DefaultOrchestratorTimeout == 2

NoSubCall == [Start |-> 0, Timeout |-> 0]

\* The timeout of an Execute: ctx.Timeout, or the default when none is set.
EffectiveTimeout == IF otimeout <= 0 THEN DefaultOrchestratorTimeout ELSE otimeout

\* Orchestrator.Execute up to its loop: the empty-prompt and no-delegate
\* errors, the split of the prompt, and context.WithTimeout.
Orchestrator_Execute ==
  /\ opc = "idle"
  /\ LET prompt == TrimSpace(oprompt)
         parts == splitPrompt(prompt)
     IN IF prompt = <<>> \/ agentIDs = <<>>
        THEN opc' = "failed" /\ UNCHANGED <<oparts, odeadline>>
        ELSE /\ opc' = "loop"
             /\ oparts' = IF parts = <<>> THEN <<prompt>> ELSE parts
             /\ odeadline' = oclock + EffectiveTimeout
  /\ UNCHANGED <<oprompt, agentIDs, oi, ocalls, oresults, oreply, nset>>
  /\ UNCHANGED <<routerAgent, oroute, otargets, otimeout, oclock, osub, nonOrchFanVars>>

\* A loop that gives up at the first sub-call that fails.
Orchestrator_Execute_callStopsOnError ==
  /\ opc = "loop"
  /\ oi < Len(oparts)
  /\ IF agentIDs = <<>>
     THEN /\ opc' = "panic"
          /\ UNCHANGED <<oi, ocalls, oresults, osub>>
     ELSE LET agentID == DelegateFor(agentIDs, oi)
          IN /\ ocalls' = Append(ocalls, [TargetAgent |-> agentID,
                                          Text |-> TrimSpace(oparts[oi + 1]),
                                          Delegates |-> agentIDs])
             /\ \E body \in SubCallBodies :
                  /\ oresults' = Append(oresults, <<agentID, ": ">> \o body)
                  /\ opc' = IF body[1] = "error: " THEN "failed" ELSE opc
             /\ osub' = [Start |-> oclock, Timeout |-> EffectiveTimeout]
             /\ oi' = oi + 1
  /\ UNCHANGED <<oprompt, agentIDs, oparts, oreply, nset>>
  /\ UNCHANGED <<routerAgent, oroute, otargets, otimeout, odeadline, oclock, nonOrchFanVars>>

\* One turn of the loop: the delegate list is read, the fragment is sent to
\* its delegate with the timeout of the Execute in its configuration, and the
\* call's outcome becomes the fragment's block.  callCtx is handed to the
\* call and looked at by nobody.  With no delegate left, i % len(delegates)
\* divides by zero.
Orchestrator_Execute_call ==
  /\ opc = "loop"
  /\ oi < Len(oparts)
  /\ IF agentIDs = <<>>
     THEN /\ opc' = "panic"
          /\ UNCHANGED <<oi, ocalls, oresults, osub>>
     ELSE LET agentID == DelegateFor(agentIDs, oi)
          IN /\ ocalls' = Append(ocalls, [TargetAgent |-> agentID,
                                          Text |-> TrimSpace(oparts[oi + 1]),
                                          Delegates |-> agentIDs])
             /\ \E body \in SubCallBodies :
                  oresults' = Append(oresults, <<agentID, ": ">> \o body)
             /\ osub' = [Start |-> oclock, Timeout |-> EffectiveTimeout]
             /\ oi' = oi + 1
             /\ UNCHANGED opc
  /\ UNCHANGED <<oprompt, agentIDs, oparts, oreply, nset>>
  /\ UNCHANGED <<routerAgent, oroute, otargets, otimeout, odeadline, oclock, nonOrchFanVars>>

\* After the loop: the blocks joined by a blank line, in a completed task.
Orchestrator_Execute_return ==
  /\ opc = "loop"
  /\ oi = Len(oparts)
  /\ oreply' = Join(oresults, "\n\n")
  /\ opc' = "done"
  /\ UNCHANGED <<oprompt, agentIDs, oparts, oi, ocalls, oresults, nset>>
  /\ UNCHANGED <<routerAgent, oroute, otargets, nonOrchVars>>

\* The delegate lists of the settings.
DelegateLists == {<<>>, <<"x">>, <<"x", "y">>, <<"y", "x">>}

\* Orchestrator.SetDelegates, while an Execute is in its loop.
SetDelegates ==
  /\ opc = "loop"
  /\ nset < MaxSetDelegates
  /\ nset' = nset + 1
  /\ \E ids \in DelegateLists : agentIDs' = ids
  /\ UNCHANGED <<opc, oprompt, oparts, oi, ocalls, oresults, oreply>>
  /\ UNCHANGED <<routerAgent, oroute, otargets, nonOrchVars>>

\* --------------------------------------------------------- LLMOrchestrator
maxRoutingTargets == 3

\* A routingTarget after firstNonEmpty and TrimSpace: the agent id and the
\* message, either of which may be empty.
PlanTargets ==
  {[AgentID |-> "x", Message |-> <<>>], [AgentID |-> "x", Message |-> <<"m">>],
   [AgentID |-> "y", Message |-> <<"m">>], [AgentID |-> "q", Message |-> <<"m">>],
   [AgentID |-> "", Message |-> <<"m">>]}

NoRoute == [Kind |-> "", Targets |-> <<>>, Notes |-> <<>>]

\* What the call to the router yields: the call fails; the reply holds no
\* JSON; it holds JSON that is no plan; or it holds a plan.
RouterReplies ==
  {[NoRoute EXCEPT !.Kind = k] : k \in {"callFailed", "noJSON", "unparseable"}}
    \cup {[Kind |-> "plan", Targets |-> ts, Notes |-> n] :
            ts \in UNION {[1..k -> PlanTargets] : k \in 0..MaxPlanTargets},
            n \in {<<>>, <<"n">>}}

\* routeTargets with parseRoutingTargets: is there an error?
routeErr(route) == route.Kind # "plan"

\* normalizeTargets that keeps the targets whose agent is not a delegate.
RECURSIVE normalizeTargetsAll(_, _, _)
normalizeTargetsAll(targets, delegates, fallbackMessage) ==
  IF targets = <<>> THEN <<>>
  ELSE LET t == Head(targets)
           rest == normalizeTargetsAll(Tail(targets), delegates, fallbackMessage)
       IN IF t.AgentID = ""
          THEN rest
          ELSE <<[t EXCEPT !.Message = IF @ = <<>> THEN fallbackMessage ELSE @]>> \o rest

\* normalizeTargets: targets with no agent id or an agent that is not a
\* delegate are dropped; an empty message becomes the fallback message.
RECURSIVE normalizeTargets(_, _, _)
normalizeTargets(targets, delegates, fallbackMessage) ==
  IF targets = <<>> THEN <<>>
  ELSE LET t == Head(targets)
           rest == normalizeTargets(Tail(targets), delegates, fallbackMessage)
       IN IF t.AgentID = "" \/ ~Contains(delegates, t.AgentID)
          THEN rest
          ELSE <<[t EXCEPT !.Message = IF @ = <<>> THEN fallbackMessage ELSE @]>> \o rest

\* LLMOrchestrator.Execute up to its loop: the configuration errors, the
\* call to the router, the targets and the notes.
LLMOrchestrator_Execute ==
  /\ opc = "idle"
  /\ LET prompt == TrimSpace(oprompt)
         normalized == normalizeTargets(oroute.Targets, agentIDs, prompt)
         targets == IF normalized = <<>>
                    THEN <<[AgentID |-> agentIDs[1], Message |-> prompt]>>
                    ELSE normalized
     IN IF prompt = <<>> \/ agentIDs = <<>> \/ routerAgent \in {"", "orchestrator"}
        THEN opc' = "failed" /\ UNCHANGED <<otargets, ocalls, oresults>>
        ELSE /\ opc' = "loop"
             /\ ocalls' = <<[TargetAgent |-> routerAgent, Text |-> <<"route: ">> \o prompt,
                             Delegates |-> agentIDs]>>
             /\ otargets' = SubSeq(targets, 1,
                                   IF Len(targets) > maxRoutingTargets
                                   THEN maxRoutingTargets ELSE Len(targets))
             /\ oresults' =
                  (IF routeErr(oroute) THEN <<<<"note: routing fallback used">>>> ELSE <<>>)
                    \o (IF oroute.Notes # <<>> THEN <<<<"note: ">> \o oroute.Notes>> ELSE <<>>)
  /\ UNCHANGED <<oprompt, agentIDs, oparts, oi, oreply, nset, routerAgent, oroute>>
  /\ UNCHANGED nonOrchVars

\* One turn of the loop: sendToAgent, and the target's block.
LLMOrchestrator_Execute_send ==
  /\ opc = "loop"
  /\ oi < Len(otargets)
  /\ LET target == otargets[oi + 1]
     IN /\ ocalls' = Append(ocalls, [TargetAgent |-> target.AgentID,
                                     Text |-> target.Message, Delegates |-> agentIDs])
        /\ \E body \in SubCallBodies :
             oresults' = Append(oresults, <<target.AgentID, ": ">> \o body)
  /\ oi' = oi + 1
  /\ UNCHANGED <<opc, oprompt, agentIDs, oparts, oreply, nset, routerAgent, oroute, otargets>>
  /\ UNCHANGED nonOrchVars

\* After the loop: the notes and blocks joined, in a completed task.
LLMOrchestrator_Execute_return ==
  /\ opc = "loop"
  /\ oi = Len(otargets)
  /\ oreply' = Join(oresults, "\n\n")
  /\ opc' = "done"
  /\ UNCHANGED <<oprompt, agentIDs, oparts, oi, ocalls, oresults, nset, routerAgent,
                 oroute, otargets>>
  /\ UNCHANGED nonOrchVars

\* ----------------------------------------- AgentRegistry, RemoteAgentRegistry
AgentIds == {"x", "y"}

NoAgent == [ID |-> "", N |-> 0, Remote |-> FALSE, CardOK |-> FALSE]

\* AgentRegistry.Register without the lock's details: the card is asked
\* for first; then the record for the id is overwritten.
AgentRegistryRegister(agent) ==
  IF ~agent.CardOK
  THEN /\ derr' = "card"
       /\ UNCHANGED agents
  ELSE /\ agents' = [agents EXCEPT ![agent.ID] = agent]
       /\ derr' = ""

\* A call of AgentRegistry.Register on a newly constructed local agent, as
\* InitAgents makes it.
Register ==
  /\ nagents < MaxAgentObjects
  /\ \E id \in AgentIds, ok \in BOOLEAN :
       AgentRegistryRegister([ID |-> id, N |-> nagents + 1, Remote |-> FALSE, CardOK |-> ok])
  /\ nagents' = nagents + 1
  /\ UNCHANGED <<remoteAgents, shutdowns, dpc, dagent>>
  /\ UNCHANGED nonRegistryVars

\* DiscoverAndRegister: NewRemoteAgent fails.
DiscoverAndRegister_createFails ==
  /\ dpc = "idle"
  /\ derr # "failed to create remote agent"
  /\ derr' = "failed to create remote agent"
  /\ UNCHANGED <<agents, remoteAgents, shutdowns, nagents, dpc, dagent>>
  /\ UNCHANGED nonRegistryVars

\* DiscoverAndRegister, its first critical section: the agent is created,
\* an existing remote agent of the same id is shut down and replaced.
DiscoverAndRegister_put ==
  /\ dpc = "idle"
  /\ nagents < MaxAgentObjects
  /\ \E id \in AgentIds :
       LET agent == [ID |-> id, N |-> nagents + 1, Remote |-> TRUE, CardOK |-> TRUE]
       IN /\ shutdowns' = IF remoteAgents[id] # NoAgent
                          THEN shutdowns \cup {remoteAgents[id].N}
                          ELSE shutdowns
          /\ remoteAgents' = [remoteAgents EXCEPT ![id] = agent]
          /\ dagent' = agent
  /\ nagents' = nagents + 1
  /\ dpc' = "register"
  /\ UNCHANGED <<agents, derr>>
  /\ UNCHANGED nonRegistryVars

\* DiscoverAndRegister: the registration in the main registry, and the
\* removal from the remote registry when that fails.
DiscoverAndRegister_register ==
  /\ dpc = "register"
  /\ AgentRegistryRegister(dagent)
  /\ remoteAgents' = IF dagent.CardOK THEN remoteAgents
                     ELSE [remoteAgents EXCEPT ![dagent.ID] = NoAgent]
  /\ dpc' = "idle"
  /\ dagent' = NoAgent
  /\ UNCHANGED <<shutdowns, nagents>>
  /\ UNCHANGED nonRegistryVars

\* RemoveRemoteAgent: the remote agent is shut down and forgotten; the main
\* registry keeps its record.
RemoveRemoteAgent ==
  /\ \E id \in AgentIds :
       /\ remoteAgents[id] # NoAgent
       /\ shutdowns' = shutdowns \cup {remoteAgents[id].N}
       /\ remoteAgents' = [remoteAgents EXCEPT ![id] = NoAgent]
  /\ UNCHANGED <<agents, nagents, dpc, dagent, derr>>
  /\ UNCHANGED nonRegistryVars

\* ------------------------------------------------- start-up and shutdown
HealthStatuses == {"healthy", "unhealthy"}

Transports == {"unix", "http"}

\* Run up to its wait: WritePid, whose failure is only logged,
\* StartHealthChecks, and the context of the transports.
Run_start ==
  /\ spc = "start"
  /\ pidFile' \in BOOLEAN
  /\ hloop' = "waiting"
  /\ runCtx' = "live"
  /\ listening' \in [Transports -> {"off", "starting"}]
  /\ spc' = "running"
  /\ UNCHANGED <<stopCh, nshutdown, health>>
  /\ UNCHANGED nonLifeVars

\* AgentRegistry.checkAll, on a tick: every agent's health is probed and
\* recorded.
checkAll ==
  /\ hloop = "waiting"
  /\ \E h \in [Registry -> HealthStatuses] :
       /\ h # health
       /\ health' = h
  /\ UNCHANGED <<spc, stopCh, pidFile, runCtx, hloop, nshutdown, listening>>
  /\ UNCHANGED nonLifeVars

\* The health-check goroutine receives from stopCh and returns.
StartHealthChecks_stopped ==
  /\ hloop = "waiting"
  /\ stopCh = "closed"
  /\ hloop' = "stopped"
  /\ UNCHANGED <<spc, stopCh, pidFile, runCtx, nshutdown, health, listening>>
  /\ UNCHANGED nonLifeVars

\* The wait of Run ends: the program quits or a signal arrives.
Run_quit ==
  /\ spc = "running"
  /\ spc' = "stop"
  /\ nshutdown' = 1
  /\ UNCHANGED <<stopCh, pidFile, runCtx, hloop, health, listening>>
  /\ UNCHANGED nonLifeVars

\* AgentRegistry.Stop: close(ar.stopCh); closing a closed channel panics.
Stop ==
  /\ spc = "stop"
  /\ IF stopCh = "closed"
     THEN spc' = "panic" /\ UNCHANGED stopCh
     ELSE spc' = "removePid" /\ stopCh' = "closed"
  /\ UNCHANGED <<pidFile, runCtx, hloop, nshutdown, health, listening>>
  /\ UNCHANGED nonLifeVars

\* Server.RemovePid: os.Remove, its error dropped.
RemovePid ==
  /\ spc = "removePid"
  /\ pidFile' = FALSE
  /\ spc' = "cancel"
  /\ UNCHANGED <<stopCh, runCtx, hloop, nshutdown, health, listening>>
  /\ UNCHANGED nonLifeVars

\* cancel(): the context of the transports is canceled, once and for all.
Run_cancel ==
  /\ spc = "cancel"
  /\ runCtx' = "canceled"
  /\ spc' = "done"
  /\ UNCHANGED <<stopCh, pidFile, hloop, nshutdown, health, listening>>
  /\ UNCHANGED nonLifeVars

\* The shutdown steps are run once more.
ShutdownAgain ==
  /\ spc = "done"
  /\ nshutdown < MaxShutdowns
  /\ nshutdown' = nshutdown + 1
  /\ spc' = "stop"
  /\ UNCHANGED <<stopCh, pidFile, runCtx, hloop, health, listening>>
  /\ UNCHANGED nonLifeVars

\* Start of a transport: it listens, or fails to.
Start_listen ==
  /\ \E t \in Transports :
       /\ listening[t] = "starting"
       /\ \E l \in {"listening", "failed"} : listening' = [listening EXCEPT ![t] = l]
  /\ UNCHANGED <<spc, stopCh, pidFile, runCtx, hloop, nshutdown, health>>
  /\ UNCHANGED nonLifeVars

\* Start of a transport: <-ctx.Done(), the listener is closed and Start
\* returns.
Start_done ==
  /\ runCtx = "canceled"
  /\ \E t \in Transports :
       /\ listening[t] = "listening"
       /\ listening' = [listening EXCEPT ![t] = "stopped"]
  /\ UNCHANGED <<spc, stopCh, pidFile, runCtx, hloop, nshutdown, health>>
  /\ UNCHANGED nonLifeVars

\* ------------------------------------------------------------ HubExecutor
NoRequestContext == [TargetAgent |-> "", StoredTask |-> FALSE]

\* The requests the A2A server hands to the executor: the target agent named
\* in the metadata (none, a registered one, an unknown one), and whether the
\* task is already stored.
RequestContexts == [TargetAgent : {"", "ghost"} \cup Registry, StoredTask : BOOLEAN]

\* sdka2a.NewStatusUpdateEvent, and its Final flag.
StatusUpdateEvent(state, final) == [State |-> state, Final |-> final]

\* queue.Write: the event is written, or the write fails and Execute returns
\* the error.
QueueWrite(event, next, failure) ==
  \/ /\ equeue' = Append(equeue, event)
     /\ epc' = next
     /\ UNCHANGED eerr
  \/ /\ eerr' = failure
     /\ epc' = "done"
     /\ UNCHANGED equeue

\* HubExecutor.writeFailure: one final failed event.
writeFailure ==
  QueueWrite(StatusUpdateEvent(TaskStateFailed, TRUE), "done",
             "failed to write failure event")

\* An executor that writes submitted for stored tasks too.
HubExecutor_Execute_submitAlways ==
  /\ epc = "idle"
  /\ equeue = <<>>
  /\ \E r \in RequestContexts :
       /\ ereq' = r
       /\ IF r.TargetAgent = "" \/ r.TargetAgent \notin Registry
          THEN writeFailure
          ELSE QueueWrite(StatusUpdateEvent(TaskStateSubmitted, FALSE), "working",
                          "failed to write state submitted")
  /\ UNCHANGED <<cqueue, agentCancels, nxcancel>>
  /\ UNCHANGED nonExecutorVars

\* HubExecutor.Execute up to the working event: the target is extracted and
\* looked up; submitted is written when no task is stored.
HubExecutor_Execute_submit ==
  /\ epc = "idle"
  /\ equeue = <<>>
  /\ \E r \in RequestContexts :
       /\ ereq' = r
       /\ IF r.TargetAgent = "" \/ r.TargetAgent \notin Registry
          THEN writeFailure
          ELSE IF ~r.StoredTask
            THEN QueueWrite(StatusUpdateEvent(TaskStateSubmitted, FALSE), "working",
                            "failed to write state submitted")
          ELSE epc' = "working" /\ UNCHANGED <<equeue, eerr>>
  /\ UNCHANGED <<cqueue, agentCancels, nxcancel>>
  /\ UNCHANGED nonExecutorVars

\* The working event.
HubExecutor_Execute_working ==
  /\ epc = "working"
  /\ QueueWrite(StatusUpdateEvent(TaskStateWorking, FALSE), "exec",
                "failed to write state working")
  /\ UNCHANGED <<ereq, cqueue, agentCancels, nxcancel>>
  /\ UNCHANGED nonExecutorVars

\* agentInfo.Agent.Execute returns: a failure event for an error, a final
\* completed event otherwise, whatever the state of the agent's task.
HubExecutor_Execute_run ==
  /\ epc = "exec"
  /\ \E r \in Execute(ereq.TargetAgent) :
       IF r.Err # ""
       THEN writeFailure
       ELSE QueueWrite(StatusUpdateEvent(TaskStateCompleted, TRUE), "done",
                       "failed to write state completed")
  /\ UNCHANGED <<ereq, cqueue, agentCancels, nxcancel>>
  /\ UNCHANGED nonExecutorVars

\* HubExecutor.Cancel: Cancel of the stored task's agent is invoked when that
\* agent is registered; then the final canceled event is written.
HubExecutor_Cancel ==
  /\ nxcancel < MaxExecutorCancels
  /\ nxcancel' = nxcancel + 1
  /\ \E id \in NamedTaskIds, r \in RequestContexts :
       /\ agentCancels' = IF r.StoredTask /\ r.TargetAgent \in Registry
                          THEN agentCancels \cup {id}
                          ELSE agentCancels
       /\ \/ cqueue' = Append(cqueue, StatusUpdateEvent(TaskStateCanceled, TRUE))
          \/ UNCHANGED cqueue
  /\ UNCHANGED <<epc, ereq, equeue, eerr>>
  /\ UNCHANGED nonExecutorVars

\* ------------------------------------------- message/send with a timeout
\* The client sets configuration.timeout of the request it is about to send.
ClientConfigures(p) ==
  /\ pc[p] = "start"
  /\ timeout[p] = 0
  /\ \E t \in 1..MaxTimeoutMs : timeout' = [timeout EXCEPT ![p] = t]
  /\ UNCHANGED expired
  /\ UNCHANGED nonDeadlineVars

\* What Run of a command returns when its context's deadline has passed and
\* the child was killed without writing to stderr.
KilledError == "signal: killed"

\* info.Agent.Execute of a CLI agent with ctx.Timeout > 0, whose child
\* outlives the timeout: exec.CommandContext kills the child and Run returns
\* an error, which Execute returns.
handleMessageSend_deadline(p) ==
  /\ pc[p] = "exec"
  /\ timeout[p] > 0
  /\ req[p].TargetAgent \in CLIAgents
  /\ result' = [result EXCEPT ![p] = [NoResult EXCEPT !.Err = KilledError]]
  /\ expired' = [expired EXCEPT ![p] = TRUE]
  /\ pc' = [pc EXCEPT ![p] = "fail"]
  /\ UNCHANGED <<storeVars, ctxVars, req, contextID, task, resp, recorded, cancelVars,
                 countVars, timeout>>
  /\ UNCHANGED nonHubDeadlineVars

\* ------------------------------------------------- CLIAgent and its prompt
\* The parts a user message is made of: text parts that are empty, blank or
\* not, and a part that is no text.
Parts ==
  [Kind : {"text"}, Text : {<<>>, <<" ">>, <<"a">>}]
    \cup {[Kind |-> "data", Text |-> <<"a">>]}

UserMessages == UNION {[1..n -> Parts] : n \in 0..MaxParts}

EntryPoints == {"Execute", "ExecuteWithArgs", "ExecuteStreaming", "ExecuteStreamingWithArgs"}

\* The texts of the parts of kind text, in order.
RECURSIVE TextParts(_)
TextParts(parts) ==
  IF parts = <<>> THEN <<>>
  ELSE (IF Head(parts).Kind = "text" THEN <<Head(parts).Text>> ELSE <<>>)
         \o TextParts(Tail(parts))

\* extractPrompt: the text parts joined by newlines, as they are.
extractPrompt(parts) == Join(TextParts(parts), "\n")

\* Execute, ExecuteWithArgs, ExecuteStreaming and ExecuteStreamingWithArgs
\* up to the start of the command: the empty prompt is refused, any other
\* prompt is handed to the executable.
CLIAgent_Execute ==
  /\ xpc = "idle"
  /\ \E e \in EntryPoints, parts \in UserMessages :
       /\ xentry' = e
       /\ xparts' = parts
       /\ IF extractPrompt(parts) = <<>>
          THEN /\ xerr' = "empty prompt"
               /\ xpc' = "failed"
               /\ UNCHANGED spawned
          ELSE /\ spawned' = TRUE
               /\ xpc' = "running"
               /\ UNCHANGED xerr
  /\ UNCHANGED nonCliVars

\* The command ends, with or without an error.
CLIAgent_Execute_run ==
  /\ xpc = "running"
  /\ xerr' \in {""} \cup ErrorTexts
  /\ xpc' = "done"
  /\ UNCHANGED <<xentry, xparts, spawned>>
  /\ UNCHANGED nonCliVars

\* ------------------------------------ the task states of the A2A dialect
\* A value of sdka2a.TaskState.
SDK(name) == [sdk |-> name]

NoSDKState == SDK("none")
TaskStateUnspecified == SDK("")

\* The states a peer may send: the eight named ones, the unspecified marker,
\* the dialect's own unknown, and a string the dialect does not define.
SDKTaskStates ==
  {SDK(s) : s \in {"submitted", "working", "input-required", "completed", "canceled",
                   "failed", "rejected", "auth-required", "", "unknown", "paused"}}

\* A toSDKTaskState without the case for auth-required.
toSDKTaskStateNoAuth(state) ==
  CASE state = TaskStateSubmitted -> SDK("submitted")
    [] state = TaskStateWorking -> SDK("working")
    [] state = TaskStateInputRequired -> SDK("input-required")
    [] state = TaskStateCompleted -> SDK("completed")
    [] state = TaskStateCanceled -> SDK("canceled")
    [] state = TaskStateFailed -> SDK("failed")
    [] state = TaskStateRejected -> SDK("rejected")
    [] OTHER -> TaskStateUnspecified

\* toSDKTaskState
toSDKTaskState(state) ==
  CASE state = TaskStateSubmitted -> SDK("submitted")
    [] state = TaskStateWorking -> SDK("working")
    [] state = TaskStateInputRequired -> SDK("input-required")
    [] state = TaskStateCompleted -> SDK("completed")
    [] state = TaskStateCanceled -> SDK("canceled")
    [] state = TaskStateFailed -> SDK("failed")
    [] state = TaskStateRejected -> SDK("rejected")
    [] state = TaskStateAuthRequired -> SDK("auth-required")
    [] OTHER -> TaskStateUnspecified

\* fromSDKTaskState of package a2a
a2a_fromSDKTaskState(state) ==
  CASE state = SDK("submitted") -> TaskStateSubmitted
    [] state = SDK("working") -> TaskStateWorking
    [] state = SDK("input-required") -> TaskStateInputRequired
    [] state = SDK("completed") -> TaskStateCompleted
    [] state = SDK("canceled") -> TaskStateCanceled
    [] state = SDK("failed") -> TaskStateFailed
    [] state = SDK("rejected") -> TaskStateRejected
    [] state = SDK("auth-required") -> TaskStateAuthRequired
    [] OTHER -> TaskStateUnknown

\* TaskStoreAdapter.Save of a task in any state: FromSDKTask, then
\* TaskManager.Create.
TaskStoreAdapter_Save ==
  /\ nsdksave < MaxAdapterSaves
  /\ nsdksave' = nsdksave + 1
  /\ \E id \in TaskIds, state \in SDKTaskStates :
       /\ TaskManagerCreate(id, [State |-> a2a_fromSDKTaskState(state),
                                 Message |-> NoMessage, Timestamp |-> now,
                                 ContextID |-> 1])
       /\ sdkSaved' = [sdkSaved EXCEPT ![id] = state]
  /\ UNCHANGED <<now, ctxVars, sendVars, cancelVars, countVars, sdkGot>>
  /\ UNCHANGED nonHubAdapterVars

\* TaskStoreAdapter.Get: ToSDKTask of the stored task, or ErrTaskNotFound.
TaskStoreAdapter_Get ==
  /\ \E id \in TaskIds :
       /\ sdkGot.ID # id
       /\ sdkGot' = [ID |-> id,
                     State |-> IF Get(id) = 0 THEN NoSDKState
                               ELSE toSDKTaskState(Stored(id).State)]
  /\ UNCHANGED <<sdkSaved, nsdksave>>
  /\ UNCHANGED nonAdapterVars

\* ------------------------------------------ the health sweep, step by step
\* The readers of the registry: Get, as message/send calls it, and List.
Lookups == {"Get", "List"}

NoProbe == [Agent |-> "", Result |-> ""]

\* What a CheckHealth call comes to. CLIAgent.CheckHealth runs the
\* executable with exec.Command and waits for it with no deadline, so it may
\* never return; RemoteAgent.CheckHealth ends within its five seconds.
CheckHealthResults(a) ==
  IF a \in CLIAgents THEN {"healthy", "unhealthy", "never"} ELSE {"healthy", "unhealthy"}

\* checkAll, on a tick: ar.mu.Lock().
checkAll_lock ==
  /\ regMu = "free"
  /\ regMu' = "checkAll"
  /\ toProbe' = Registry
  /\ UNCHANGED <<probe, infoHealth, lpc>>
  /\ UNCHANGED nonSweepVars

\* The loop of checkAll reaches an agent and calls its CheckHealth.
checkAll_probe ==
  /\ regMu = "checkAll"
  /\ probe = NoProbe
  /\ \E a \in toProbe :
       /\ \E res \in CheckHealthResults(a) : probe' = [Agent |-> a, Result |-> res]
       /\ toProbe' = toProbe \ {a}
  /\ UNCHANGED <<regMu, infoHealth, lpc>>
  /\ UNCHANGED nonSweepVars

\* CheckHealth returns and info.Health is assigned.
checkAll_record ==
  /\ probe # NoProbe
  /\ probe.Result # "never"
  /\ infoHealth' = [infoHealth EXCEPT ![probe.Agent] = probe.Result]
  /\ probe' = NoProbe
  /\ UNCHANGED <<regMu, toProbe, lpc>>
  /\ UNCHANGED nonSweepVars

\* The loop is over: the deferred ar.mu.Unlock().
checkAll_unlock ==
  /\ regMu = "checkAll"
  /\ probe = NoProbe
  /\ toProbe = {}
  /\ regMu' = "free"
  /\ UNCHANGED <<toProbe, probe, infoHealth, lpc>>
  /\ UNCHANGED nonSweepVars

\* AgentRegistry.Get or List is called and asks for ar.mu.RLock().
Lookup_call(l) ==
  /\ lpc[l] # "blocked"
  /\ lpc' = [lpc EXCEPT ![l] = "blocked"]
  /\ UNCHANGED <<regMu, toProbe, probe, infoHealth>>
  /\ UNCHANGED nonSweepVars

\* RLock is granted once no writer holds the lock; the map is read, the
\* lock released, and the call returns.
Lookup_return(l) ==
  /\ lpc[l] = "blocked"
  /\ regMu = "free"
  /\ lpc' = [lpc EXCEPT ![l] = "returned"]
  /\ UNCHANGED <<regMu, toProbe, probe, infoHealth>>
  /\ UNCHANGED nonSweepVars

\* ------------------------------------------------ time during a fan-out
\* The caller of Execute sets ExecutionContext.Timeout.
Orchestrator_Timeout ==
  /\ opc = "idle"
  /\ otimeout = 0
  /\ \E t \in 1..MaxOrchTimeout : otimeout' = t
  /\ UNCHANGED <<odeadline, oclock, osub>>
  /\ UNCHANGED nonFanVars

\* A tick passes while the latest sub-call runs: handleMessageSend hands the
\* timeout of its configuration to the agent, so a sub-call lasts as long as
\* the timeout it was given, whatever callCtx says.
SubCallRuns ==
  /\ opc = "loop"
  /\ oi > 0
  /\ oclock < MaxOrchClock
  /\ oclock - osub.Start < osub.Timeout
  /\ oclock' = oclock + 1
  /\ UNCHANGED <<otimeout, odeadline, osub>>
  /\ UNCHANGED nonFanVars

\* ------------------------------------------------------------- settings
\* The backends that have settings, by the id of their agent.
Backends == {"claude-code", "codex", "gemini", "vibe"}

\* Of the settings of a backend, the model (for vibe, the agent) and one
\* toggle: EnableContinue, EnableSearch, DefaultSandbox, NonInteractive.
SettingsModels == {"", "m"}

BackendSettings == [Model : SettingsModels, Toggle : BOOLEAN]

ZeroSettings == [Model |-> "", Toggle |-> FALSE]

\* The defaultConfig an agent is constructed with: the zero value, but for
\* the vibe agent NonInteractive: true.
NewAgentConfig(b) == [Model |-> "", Toggle |-> (b = "vibe")]

\* GetClaudeConfig, GetCodexConfig, GetGeminiConfig, GetVibeConfig: a
\* configuration with the fields of the stored settings.
GetConfig(stored) == [Model |-> stored.Model, Toggle |-> stored.Toggle]

\* The backends applySettingsToAgents looks up in the registry.
AppliedBackends == {"claude-code", "codex"}

\* applySettingsToAgents on the settings s: SetDefaultConfig on the agents it
\* looks up. SetDefaultConfig stores its argument.
applySettingsToAgents(s) ==
  defaultConfig' = [b \in Backends |->
                      IF b \in AppliedBackends THEN GetConfig(s[b]) ELSE defaultConfig[b]]

\* SaveSettings
SaveSettings(s) == settingsDisk' = s

\* Update<Backend>Settings: the whole struct is replaced.
UpdateSettings(b) ==
  /\ \E new \in BackendSettings :
       LET s == [settings EXCEPT ![b] = new]
       IN /\ settings' = s
          /\ applySettingsToAgents(s)
          /\ SaveSettings(s)
  /\ UNCHANGED nonSettingsVars

\* UpdateClaudeModel, UpdateCodexModel, UpdateGeminiModel, UpdateVibeAgent.
UpdateModel(b) ==
  /\ \E model \in SettingsModels :
       LET s == [settings EXCEPT ![b].Model = model]
       IN /\ settings' = s
          /\ applySettingsToAgents(s)
          /\ SaveSettings(s)
  /\ UNCHANGED nonSettingsVars

\* UpdateClaudeContinue, UpdateCodexSearch, UpdateGeminiSandbox,
\* UpdateVibeNonInteractive.
UpdateToggle(b) ==
  /\ \E enabled \in BOOLEAN :
       LET s == [settings EXCEPT ![b].Toggle = enabled]
       IN /\ settings' = s
          /\ applySettingsToAgents(s)
          /\ SaveSettings(s)
  /\ UNCHANGED nonSettingsVars

\* ------------------------------- the orchestrator among its own delegates
OrchestratorID == "orchestrator"

\* Delegate lists as the configuration or the settings may hold them.
NestDelegateLists ==
  {<<"x">>, <<OrchestratorID>>, <<"x", OrchestratorID>>, <<OrchestratorID, "x">>,
   <<"x", "y", OrchestratorID>>}

\* Prompts of one, two and three words, and a blank one.
NestPrompts ==
  {<<"a">>, <<" ">>}
    \cup {<<"a", s, "b">> : s \in Separators}
    \cup {<<"a", s1, "b", s2, "c">> : s1 \in Separators, s2 \in Separators}

\* Orchestrator.Execute up to its loop, on the text of its user message.
ExecuteFrame(text) ==
  LET prompt == TrimSpace(text)
      parts == splitPrompt(prompt)
  IN [Prompt |-> prompt, Parts |-> IF parts = <<>> THEN <<prompt>> ELSE parts, I |-> 0]

\* message/send with targetAgent orchestrator: handleMessageSend calls
\* Execute, which fails at once on an empty prompt.
Orchestrator_Send ==
  /\ npc = "idle"
  /\ \E ids \in NestDelegateLists, text \in NestPrompts :
       /\ ndelegates' = ids
       /\ IF TrimSpace(text) = <<>>
          THEN npc' = "returned" /\ UNCHANGED frames
          ELSE npc' = "running" /\ frames' = <<ExecuteFrame(text)>>
  /\ UNCHANGED nonNestVars

\* One turn of the loop of the innermost Execute: its message/send goes to
\* the fragment's delegate. A delegate other than the orchestrator answers;
\* for the orchestrator, LocalCaller.Call runs handleMessageSend and with
\* it a further Execute, on the fragment, before the turn can end.
Orchestrator_SubCall ==
  /\ npc = "running"
  /\ LET depth == Len(frames)
         top == frames[depth]
     IN /\ top.I < Len(top.Parts)
        /\ IF DelegateFor(ndelegates, top.I) = OrchestratorID
           THEN /\ depth < MaxCallDepth
                /\ frames' = Append(frames, ExecuteFrame(top.Parts[top.I + 1]))
           ELSE frames' = [frames EXCEPT ![depth].I = top.I + 1]
  /\ UNCHANGED <<npc, ndelegates>>
  /\ UNCHANGED nonNestVars

\* The innermost Execute is through its fragments and returns: the turn of
\* the Execute that called it ends, or the outermost message/send returns.
Orchestrator_SubReturn ==
  /\ npc = "running"
  /\ LET depth == Len(frames)
         top == frames[depth]
     IN /\ top.I = Len(top.Parts)
        /\ IF depth = 1
           THEN frames' = <<>> /\ npc' = "returned"
           ELSE /\ frames' = [SubSeq(frames, 1, depth - 1) EXCEPT ![depth - 1].I = @ + 1]
                /\ UNCHANGED npc
  /\ UNCHANGED ndelegates
  /\ UNCHANGED nonNestVars

\* ------------------------------- the input forwarder of ExecuteStreaming
\* The goroutine started after the output reader begins to run.
inputForwarder_start ==
  /\ fpc = "none" /\ rpc # "none" /\ ~panicked
  /\ fpc' = "select"
  /\ UNCHANGED ninput
  /\ UNCHANGED nonForwardVars

\* case text := <-input: the user typed a text, which is written to the
\* PTY; the error of a write to a closed PTY is dropped. The input channel
\* is never closed.
inputForwarder_write ==
  /\ fpc = "select" /\ ~panicked
  /\ ninput < MaxInputs
  /\ ninput' = ninput + 1
  /\ UNCHANGED fpc
  /\ UNCHANGED nonForwardVars

\* case <-done: the output reader has closed done.
inputForwarder_done ==
  /\ fpc = "select" /\ rpc = "done" /\ ~panicked
  /\ fpc' = "done"
  /\ UNCHANGED ninput
  /\ UNCHANGED nonForwardVars

\* ----------------------------------- hub/tasks/list, any limit and offset
\* The integers a client sends as limit and offset.
ListInts == (0 - MaxOffset)..MaxOffset

\* The end of the slice expression in TaskManager.List, for n matching tasks.
ListEnd(n, limit, offset) ==
  IF limit > 0 /\ offset + limit < n THEN offset + limit ELSE n

\* result[offset:end] panics unless 0 <= offset <= end <= len(result).
SlicePanics(n, limit, offset) ==
  /\ ~(offset >= n)
  /\ ~(0 <= offset /\ offset <= ListEnd(n, limit, offset) /\ ListEnd(n, limit, offset) <= n)

\* handleTasksList with the limit and offset of the request as they come:
\* json.Unmarshal accepts any integer, and TaskManager.List is called.
handleTasksList_call ==
  /\ ~lcrashed
  /\ nlist < MaxListCalls
  /\ nlist' = nlist + 1
  /\ \E limit \in ListInts, offset \in ListInts :
       /\ lcall' = [Limit |-> limit, Offset |-> offset]
       /\ \E order \in RangeOrders(Matching(listReq.ContextID, listReq.State)) :
            IF SlicePanics(Len(order), limit, offset)
            THEN lcrashed' = TRUE /\ UNCHANGED lreply
            ELSE lreply' = List(order, limit, offset) /\ UNCHANGED lcrashed
  /\ UNCHANGED nonListCallVars

\* --------------------------------------------- context store, called directly
ContextCreateCall ==
  /\ ncreate < MaxContextCreates
  /\ ncreate' = ncreate + 1
  /\ \E id \in 1..NumClientContexts : ContextManagerCreate(id)
  /\ UNCHANGED <<storeVars, seen, sendVars, cancelVars, nsave, nadd>>
  /\ UNCHANGED nonHubVars

\* The k-th appended message is k.
AddMessageCall ==
  /\ nadd < MaxAddMessages
  /\ nadd' = nadd + 1
  /\ \E id \in 1..NumClientContexts : AddMessage(id, nadd + 1)
  /\ UNCHANGED <<storeVars, seen, sendVars, cancelVars, nsave, ncreate>>
  /\ UNCHANGED nonHubVars

LoadCall ==
  /\ Load
  /\ UNCHANGED <<storeVars, ctxDisk, seen, sendVars, cancelVars, countVars>>
  /\ UNCHANGED nonHubVars

GetHistoryCall ==
  /\ \E id \in 1..NumClientContexts : seen' = [seen EXCEPT ![id] = GetHistory(id)]
  /\ UNCHANGED <<storeVars, contexts, ctxDisk, sendVars, cancelVars, countVars>>
  /\ UNCHANGED nonHubVars


\* ------------------------------------------- CLIAgent.ExecuteStreaming
\* ExecuteStreaming and ExecuteStreamingWithArgs differ only in the argument
\* list they expand; one execution is modelled.
StreamEvent(kind, text, by) == [Kind |-> kind, Text |-> text, By |-> by]

\* output <- event: blocks while the buffer is full, panics once the channel
\* is closed.
CanSend == closed \/ Len(output) < OutputCap

SendEvent(kind, text, by) ==
  IF closed
  THEN /\ panicked' = TRUE
       /\ UNCHANGED <<output, sent>>
  ELSE /\ output' = Append(output, StreamEvent(kind, text, by))
       /\ sent' = Append(sent, StreamEvent(kind, text, by))
       /\ UNCHANGED panicked

\* prompt == "": the error event, and the call returns.
ExecuteStreaming_emptyPrompt ==
  /\ mpc = "start" /\ ~panicked
  /\ CanSend
  /\ SendEvent("error", "empty prompt", "caller")
  /\ mpc' = "returned"
  /\ UNCHANGED <<rpc, child, linesLeft, ptyBuf, ptmxClosed, closed>>
  /\ UNCHANGED nonStreamVars

\* pty.Start fails: the error event, and the call returns.
ExecuteStreaming_startFails ==
  /\ mpc = "start" /\ ~panicked
  /\ CanSend
  /\ SendEvent("error", "start", "caller")
  /\ mpc' = "returned"
  /\ UNCHANGED <<rpc, child, linesLeft, ptyBuf, ptmxClosed, closed>>
  /\ UNCHANGED nonStreamVars

\* pty.Start succeeds: the child runs and the output reader is started.
ExecuteStreaming_start ==
  /\ mpc = "start" /\ ~panicked
  /\ \E n \in 0..MaxLines : linesLeft' = n
  /\ child' = "running"
  /\ rpc' = "scan"
  /\ mpc' = "wait"
  /\ UNCHANGED <<ptyBuf, ptmxClosed, output, closed, sent, panicked>>
  /\ UNCHANGED nonStreamVars

\* The child prints a line.
ChildPrints ==
  /\ child = "running" /\ linesLeft > 0 /\ ~panicked
  /\ linesLeft' = linesLeft - 1
  /\ ptyBuf' = ptyBuf + 1
  /\ UNCHANGED <<mpc, rpc, child, ptmxClosed, output, closed, sent, panicked>>
  /\ UNCHANGED nonStreamVars

\* The child exits with status zero or not, or the timeout kills it.
ChildExits ==
  /\ child = "running" /\ ~panicked
  /\ child' \in {"exit0", "exit1", "killed"}
  /\ UNCHANGED <<mpc, rpc, linesLeft, ptyBuf, ptmxClosed, output, closed, sent, panicked>>
  /\ UNCHANGED nonStreamVars

\* command.Wait() returns.
ExecuteStreaming_wait ==
  /\ mpc = "wait" /\ child \notin {"none", "running"} /\ ~panicked
  /\ mpc' = IF child = "exit0" THEN "awaitDone" ELSE "waitError"
  /\ UNCHANGED <<rpc, child, linesLeft, ptyBuf, ptmxClosed, output, closed, sent, panicked>>
  /\ UNCHANGED nonStreamVars

\* Wait returned an error: the error event, without waiting for the reader.
ExecuteStreaming_waitError ==
  /\ mpc = "waitError" /\ ~panicked
  /\ CanSend
  /\ SendEvent("error", "wait", "caller")
  /\ mpc' = "return"
  /\ UNCHANGED <<rpc, child, linesLeft, ptyBuf, ptmxClosed, closed>>
  /\ UNCHANGED nonStreamVars

\* <-done
ExecuteStreaming_awaitDone ==
  /\ mpc = "awaitDone" /\ rpc = "done" /\ ~panicked
  /\ mpc' = "complete"
  /\ UNCHANGED <<rpc, child, linesLeft, ptyBuf, ptmxClosed, output, closed, sent, panicked>>
  /\ UNCHANGED nonStreamVars

\* The complete event.
ExecuteStreaming_complete ==
  /\ mpc = "complete" /\ ~panicked
  /\ CanSend
  /\ SendEvent("complete", "", "caller")
  /\ mpc' = "return"
  /\ UNCHANGED <<rpc, child, linesLeft, ptyBuf, ptmxClosed, closed>>
  /\ UNCHANGED nonStreamVars

\* The call returns: the deferred ptmx.Close() runs.
ExecuteStreaming_return ==
  /\ mpc = "return" /\ ~panicked
  /\ ptmxClosed' = TRUE
  /\ mpc' = "returned"
  /\ UNCHANGED <<rpc, child, linesLeft, ptyBuf, output, closed, sent, panicked>>
  /\ UNCHANGED nonStreamVars

\* startStreamingCmd: the deferred close(stream.Output) after the call.
startStreamingCmd_close ==
  /\ mpc = "returned" /\ ~panicked
  /\ closed' = TRUE
  /\ mpc' = "closed"
  /\ UNCHANGED <<rpc, child, linesLeft, ptyBuf, ptmxClosed, output, sent, panicked>>
  /\ UNCHANGED nonStreamVars

\* The output reader's scanner.Scan(): a line; or, once the child is gone and
\* the buffer drained, end of input or a read error; or, once the PTY is
\* closed, a read error.
outputReader_scan ==
  /\ rpc = "scan" /\ ~panicked
  /\ \/ /\ ~ptmxClosed /\ ptyBuf > 0
        /\ ptyBuf' = ptyBuf - 1
        /\ rpc' = "line"
     \/ /\ ~ptmxClosed /\ ptyBuf = 0 /\ child # "running"
        /\ rpc' \in {"done", "readError"}
        /\ UNCHANGED ptyBuf
     \/ /\ ptmxClosed
        /\ rpc' = "readError"
        /\ UNCHANGED ptyBuf
  /\ UNCHANGED <<mpc, child, linesLeft, ptmxClosed, output, closed, sent, panicked>>
  /\ UNCHANGED nonStreamVars

\* The output or prompt event of a line.
outputReader_sendLine ==
  /\ rpc = "line" /\ ~panicked
  /\ CanSend
  /\ \E kind \in {"output", "prompt"} : SendEvent(kind, "line", "reader")
  /\ rpc' = "scan"
  /\ UNCHANGED <<mpc, child, linesLeft, ptyBuf, ptmxClosed, closed>>
  /\ UNCHANGED nonStreamVars

\* scanner.Err() != nil: the error event; then close(done).
outputReader_sendError ==
  /\ rpc = "readError" /\ ~panicked
  /\ CanSend
  /\ SendEvent("error", "read", "reader")
  /\ rpc' = "done"
  /\ UNCHANGED <<mpc, child, linesLeft, ptyBuf, ptmxClosed, closed>>
  /\ UNCHANGED nonStreamVars

\* listenAgentStream: the consumer receives an event.
listenAgentStream ==
  /\ output # <<>> /\ ~panicked
  /\ output' = Tail(output)
  /\ UNCHANGED <<mpc, rpc, child, linesLeft, ptyBuf, ptmxClosed, closed, sent, panicked>>
  /\ UNCHANGED nonStreamVars

\* ------------------------------------------------------------ specification
TaskStoreInit ==
  /\ tasks = [id \in TaskIds |-> 0]
  /\ taskDisk = [id \in TaskIds |-> NoTask]
  /\ heap = <<>>
  /\ now = 1

HandlersInit ==
  /\ contexts = [id \in ContextIds |-> NoContext]
  /\ ctxDisk = [id \in ContextIds |-> NoContext]
  /\ seen = [id \in ContextIds |-> <<>>]
  /\ pc = [p \in Senders |-> "start"]
  /\ req = [p \in Senders |-> NoRequest]
  /\ contextID = [p \in Senders |-> 0]
  /\ task = [p \in Senders |-> 0]
  /\ result = [p \in Senders |-> NoResult]
  /\ resp = [p \in Senders |-> NoResponse]
  /\ recorded = [p \in Senders |-> <<>>]
  /\ cpc = "idle"
  /\ cid = 0
  /\ ctask = 0
  /\ cseen = ""
  /\ cinflight = FALSE
  /\ cresp = NoResponse
  /\ canceledInExec = {}
  /\ ncancel = 0
  /\ nsave = 0
  /\ nadd = 0
  /\ ncreate = 0

HubInit == TaskStoreInit /\ HandlersInit

StreamInit ==
  /\ mpc = "start"
  /\ rpc = "none"
  /\ child = "none"
  /\ linesLeft = 0
  /\ ptyBuf = 0
  /\ ptmxClosed = FALSE
  /\ output = <<>>
  /\ closed = FALSE
  /\ sent = <<>>
  /\ panicked = FALSE

NoListRequest == [ContextID |-> 0, State |-> "", Limit |-> 0]

ListIdle ==
  /\ listReq = NoListRequest
  /\ pages = <<>>

ConnInit ==
  /\ lines = <<>>
  /\ nread = 0
  /\ tpc = "scan"
  /\ treq = NoLine
  /\ tresp = Response(0, "", 0)
  /\ connOut = <<>>
  /\ handled = <<>>

OrchIdle ==
  /\ opc = "idle"
  /\ oparts = <<>>
  /\ oi = 0
  /\ ocalls = <<>>
  /\ oresults = <<>>
  /\ oreply = <<>>
  /\ nset = 0
  /\ otargets = <<>>

OrchInit ==
  /\ OrchIdle
  /\ oprompt = <<>>
  /\ agentIDs = <<>>
  /\ routerAgent = ""
  /\ oroute = NoRoute

\* NewAgentRegistry, NewRemoteAgentRegistry.
RegistryInit ==
  /\ agents = [id \in AgentIds |-> NoAgent]
  /\ remoteAgents = [id \in AgentIds |-> NoAgent]
  /\ shutdowns = {}
  /\ nagents = 0
  /\ dpc = "idle"
  /\ dagent = NoAgent
  /\ derr = ""

\* NewAgentRegistry; InitAgents has registered the agents, in good health.
LifeInit ==
  /\ spc = "start"
  /\ stopCh = "open"
  /\ pidFile = FALSE
  /\ runCtx = "none"
  /\ hloop = "none"
  /\ nshutdown = 0
  /\ health = [a \in Registry |-> "healthy"]
  /\ listening = [t \in Transports |-> "off"]

\* NewHubExecutor, before any request.
ExecutorInit ==
  /\ epc = "idle"
  /\ ereq = NoRequestContext
  /\ equeue = <<>>
  /\ eerr = ""
  /\ cqueue = <<>>
  /\ agentCancels = {}
  /\ nxcancel = 0

\* No request has a timeout before its client sets one.
DeadlineInit ==
  /\ timeout = [p \in Senders |-> 0]
  /\ expired = [p \in Senders |-> FALSE]

\* A CLI agent before any call.
CLIInit ==
  /\ xpc = "idle"
  /\ xentry = ""
  /\ xparts = <<>>
  /\ xerr = ""
  /\ spawned = FALSE

\* NewTaskStoreAdapter, before any call.
AdapterInit ==
  /\ sdkSaved = [id \in TaskIds |-> NoSDKState]
  /\ sdkGot = [ID |-> 0, State |-> NoSDKState]
  /\ nsdksave = 0

\* The registry after Register of every agent, between two ticks.
SweepInit ==
  /\ regMu = "free"
  /\ toProbe = {}
  /\ probe = NoProbe
  /\ infoHealth = [a \in Registry |-> "healthy"]
  /\ lpc = [l \in Lookups |-> "idle"]

\* An orchestrator called with no timeout, at time 0.
FanOutInit ==
  /\ otimeout = 0
  /\ odeadline = 0
  /\ oclock = 0
  /\ osub = NoSubCall

\* NewServer and InitAgents: zero settings, and the four agents as constructed.
SettingsInit ==
  /\ settings = [b \in Backends |-> ZeroSettings]
  /\ defaultConfig = [b \in Backends |-> NewAgentConfig(b)]
  /\ settingsDisk = [b \in Backends |-> ZeroSettings]

\* No message/send to the orchestrator yet.
NestInit ==
  /\ npc = "idle"
  /\ ndelegates = <<>>
  /\ frames = <<>>

\* No input forwarder yet.
ForwardInit ==
  /\ fpc = "none"
  /\ ninput = 0

\* No hub/tasks/list with a free offset yet.
ListCallInit ==
  /\ lcall = [Limit |-> 0, Offset |-> 0]
  /\ lreply = <<>>
  /\ lcrashed = FALSE
  /\ nlist = 0

\* The components a specification does not drive stay as constructed.
RestInit ==
  /\ RegistryInit
  /\ LifeInit
  /\ ExecutorInit
  /\ DeadlineInit
  /\ CLIInit
  /\ AdapterInit
  /\ SweepInit
  /\ FanOutInit
  /\ SettingsInit
  /\ NestInit
  /\ ForwardInit
  /\ ListCallInit

Init == HubInit /\ StreamInit /\ ListIdle /\ ConnInit /\ OrchInit /\ RestInit

\* handleMessageSend up to the point where its context exists.
handleMessageSend_context(p) ==
  \/ handleMessageSend_validate(p)
  \/ handleMessageSend_newContext(p)
  \/ handleMessageSend_getContext(p)
  \/ handleMessageSend_createContext(p)

\* The rest of handleMessageSend, which does not touch the context store.
handleMessageSend_task(p) ==
  \/ handleMessageSend_createTask(p)
  \/ handleMessageSend_working(p)
  \/ handleMessageSend_execute(p)
  \/ handleMessageSend_fail(p)
  \/ handleMessageSend_mergeState(p)
  \/ handleMessageSend_mergeMessage(p)
  \/ handleMessageSend_mergeTimestamp(p)
  \/ handleMessageSend_update(p)

handleMessageSend(p) == handleMessageSend_context(p) \/ handleMessageSend_task(p)

handleTaskCancel ==
  \/ handleTaskCancel_check
  \/ handleTaskCancel_writeState
  \/ handleTaskCancel_writeTimestamp

\* The task store: message/send against tasks/cancel and the A2A task store.
Next ==
  \/ \E p \in TaskSenders : handleMessageSend(p)
  \/ handleTaskCancel
  \/ Save

Spec == Init /\ [][Next]_vars

\* The context store: concurrent message/send calls, followed until their
\* context exists, against the other callers of the store.
ContextNext ==
  \/ \E p \in Senders : handleMessageSend_context(p)
  \/ ContextCreateCall
  \/ AddMessageCall
  \/ LoadCall
  \/ GetHistoryCall

ContextSpec == Init /\ [][ContextNext]_vars

\* One streaming execution, its output reader, its caller and its consumer.
StreamNext ==
  \/ ExecuteStreaming_emptyPrompt
  \/ ExecuteStreaming_startFails
  \/ ExecuteStreaming_start
  \/ ChildPrints
  \/ ChildExits
  \/ ExecuteStreaming_wait
  \/ ExecuteStreaming_waitError
  \/ ExecuteStreaming_awaitDone
  \/ ExecuteStreaming_complete
  \/ ExecuteStreaming_return
  \/ startStreamingCmd_close
  \/ outputReader_scan
  \/ outputReader_sendLine
  \/ outputReader_sendError
  \/ listenAgentStream

StreamSpec == Init /\ [][StreamNext]_vars

\* The task store on its own: its callers, and restarts of the process.
PersistNext ==
  \/ TaskCreateCall
  \/ UpdateStatusCall
  \/ LoadState

PersistSpec == Init /\ [][PersistNext]_vars

\* A store of tasks created one after the other, and a client about to page
\* through it with some filters and limit.
ListInit ==
  /\ \E n \in 0..ExternalTaskId :
       /\ heap \in [1..n -> [State : PersistStates, Message : {NoMessage},
                             Timestamp : {1}, ContextID : 1..2]]
       /\ tasks = [id \in TaskIds |-> IF id <= n THEN id ELSE 0]
  /\ taskDisk = [id \in TaskIds |-> IF tasks[id] = 0 THEN NoTask ELSE MarshalTask(Stored(id))]
  /\ now = 2
  /\ HandlersInit
  /\ StreamInit
  /\ ConnInit
  /\ OrchInit
  /\ RestInit
  /\ listReq \in [ContextID : 0..2, State : {""} \cup PersistStates, Limit : 1..MaxLimit]
  /\ pages = <<>>

\* One connection on the Unix socket and its client.
ConnNext ==
  \/ ClientWrites
  \/ handleConn_scan
  \/ handleConn_eof
  \/ handleConn_handle
  \/ handleConn_write

ConnSpec == Init /\ [][ConnNext]_vars

\* The prompts: every text of up to MaxPromptTokens tokens, and the texts of
\* three words with a separator between each two.
Tokens == Words \cup Separators \cup {" "}

Prompts ==
  UNION {[1..n -> Tokens] : n \in 0..MaxPromptTokens}
    \cup {<<"a", s1, "b", s2, "c">> : s1 \in Separators, s2 \in Separators}

\* An orchestrator with some delegates, about to execute some prompt.
OrchestratorInit ==
  /\ HubInit /\ StreamInit /\ ListIdle /\ ConnInit /\ RestInit
  /\ OrchIdle
  /\ oprompt \in Prompts
  /\ agentIDs \in DelegateLists
  /\ routerAgent = ""
  /\ oroute = NoRoute

OrchestratorNext ==
  \/ Orchestrator_Execute
  \/ Orchestrator_Execute_call
  \/ Orchestrator_Execute_return
  \/ SetDelegates

OrchestratorSpec == OrchestratorInit /\ [][OrchestratorNext]_vars

\* An LLM orchestrator with some delegates and router, about to execute some
\* prompt, and what its router will reply.
LLMOrchestratorInit ==
  /\ HubInit /\ StreamInit /\ ListIdle /\ ConnInit /\ RestInit
  /\ OrchIdle
  /\ oprompt \in {<<" ">>, <<"a">>}
  /\ agentIDs \in DelegateLists
  /\ routerAgent \in {"", "orchestrator", "router"}
  /\ oroute \in RouterReplies

LLMOrchestratorNext ==
  \/ LLMOrchestrator_Execute
  \/ LLMOrchestrator_Execute_send
  \/ LLMOrchestrator_Execute_return

LLMOrchestratorSpec == LLMOrchestratorInit /\ [][LLMOrchestratorNext]_vars

\* Local and remote agents being registered, in any order.
RegistryNext ==
  \/ Register
  \/ DiscoverAndRegister_createFails
  \/ DiscoverAndRegister_put
  \/ DiscoverAndRegister_register
  \/ RemoveRemoteAgent

RegistrySpec == Init /\ [][RegistryNext]_vars

\* The life of the process: start-up, health checks, and the shutdown steps.
LifeNext ==
  \/ Run_start
  \/ checkAll
  \/ StartHealthChecks_stopped
  \/ Run_quit
  \/ Stop
  \/ RemovePid
  \/ Run_cancel
  \/ ShutdownAgain
  \/ Start_listen
  \/ Start_done

LifeSpec == Init /\ [][LifeNext]_vars

\* tasks/cancel of the hub and the A2A server's cancel, on tasks the A2A
\* server has saved.
CancelNext ==
  \/ Save
  \/ handleTaskCancel
  \/ HubExecutor_Cancel

CancelSpec == Init /\ [][CancelNext]_vars

\* The A2A bridge: one Execute request, and cancel requests.
ExecutorNext ==
  \/ HubExecutor_Execute_submit
  \/ HubExecutor_Execute_working
  \/ HubExecutor_Execute_run
  \/ HubExecutor_Cancel

ExecutorSpec == Init /\ [][ExecutorNext]_vars

\* message/send with a timeout, while the health checks run.
SendNext ==
  \/ \E p \in TaskSenders : ClientConfigures(p)
  \/ \E p \in TaskSenders : handleMessageSend(p)
  \/ \E p \in TaskSenders : handleMessageSend_deadline(p)
  \/ Run_start
  \/ checkAll

SendSpec == Init /\ [][SendNext]_vars

\* One call of a CLI agent.
CLINext ==
  \/ CLIAgent_Execute
  \/ CLIAgent_Execute_run

CLISpec == Init /\ [][CLINext]_vars

\* The A2A server storing and fetching tasks through the adapter.
AdapterNext ==
  \/ TaskStoreAdapter_Save
  \/ TaskStoreAdapter_Get

AdapterSpec == Init /\ [][AdapterNext]_vars

\* The health sweep against the readers of the registry.
SweepNext ==
  \/ checkAll_lock
  \/ checkAll_probe
  \/ checkAll_record
  \/ checkAll_unlock
  \/ \E l \in Lookups : Lookup_call(l)
  \/ \E l \in Lookups : Lookup_return(l)

\* Every goroutine that can run does run: a probe whose executable exits is
\* recorded, the sweep goes on and unlocks, and sync.RWMutex grants a
\* waiting reader the lock when it is released again and again.
SweepFairness ==
  /\ WF_vars(checkAll_probe)
  /\ WF_vars(checkAll_record)
  /\ WF_vars(checkAll_unlock)
  /\ \A l \in Lookups : SF_vars(Lookup_return(l))

SweepSpec == Init /\ [][SweepNext]_vars /\ SweepFairness

\* One Execute of the static orchestrator, with the time its sub-calls take.
FanOutNext ==
  \/ Orchestrator_Timeout
  \/ Orchestrator_Execute
  \/ Orchestrator_Execute_call
  \/ SubCallRuns
  \/ Orchestrator_Execute_return
  \/ SetDelegates

FanOutSpec == OrchestratorInit /\ [][FanOutNext]_vars

\* The settings mutators, called in any order.
SettingsNext ==
  \/ \E b \in Backends : UpdateSettings(b)
  \/ \E b \in Backends : UpdateModel(b)
  \/ \E b \in Backends : UpdateToggle(b)

SettingsSpec == Init /\ [][SettingsNext]_vars

\* A message/send to an orchestrator that may be among its own delegates.
NestNext ==
  \/ Orchestrator_Send
  \/ Orchestrator_SubCall
  \/ Orchestrator_SubReturn

NestSpec == Init /\ [][NestNext]_vars

\* One streaming execution with its input forwarder, where the child exits
\* in the end, the consumer keeps receiving and every goroutine that can
\* take a step does so.
StreamLiveNext ==
  \/ StreamNext
  \/ inputForwarder_start
  \/ inputForwarder_write
  \/ inputForwarder_done

StreamFairness ==
  /\ WF_vars(ExecuteStreaming_emptyPrompt \/ ExecuteStreaming_startFails
               \/ ExecuteStreaming_start)
  /\ WF_vars(ChildExits)
  /\ WF_vars(listenAgentStream)
  /\ WF_vars(ExecuteStreaming_wait \/ ExecuteStreaming_waitError \/ ExecuteStreaming_awaitDone
               \/ ExecuteStreaming_complete \/ ExecuteStreaming_return)
  /\ WF_vars(startStreamingCmd_close)
  /\ WF_vars(outputReader_scan \/ outputReader_sendLine \/ outputReader_sendError)
  /\ WF_vars(inputForwarder_start)
  /\ WF_vars(inputForwarder_done)

StreamLiveSpec == Init /\ [][StreamLiveNext]_vars /\ StreamFairness

\* A client calling hub/tasks/list with any limit and offset.
ListCallNext == handleTasksList_call

ListCallSpec == ListInit /\ [][ListCallNext]_vars

\* A client paging through an unchanged task store.
ListNext == handleTasksList

ListSpec == ListInit /\ [][ListNext]_vars

\* ================================================================== claims
IsPrefix(s, t) == Len(s) <= Len(t) /\ SubSeq(t, 1, Len(s)) = s

InExecuteOrLater(p) ==
  pc[p] \in {"exec", "fail", "mergeState", "mergeMessage", "mergeTimestamp", "update"}

RECURSIVE Flatten(_)
Flatten(ss) == IF ss = <<>> THEN <<>> ELSE Head(ss) \o Flatten(Tail(ss))

IsTerminal(e) == e.Kind \in {"complete", "error"}

TerminalEvents == {i \in 1..Len(sent) : IsTerminal(sent[i])}

C2_TerminalImmutable ==
  [][\A id \in TaskIds :
       (tasks[id] # 0 /\ Stored(id).State \in TerminalStates)
         => (tasks'[id] # 0 /\ Stored(id)' = Stored(id))]_vars

\* C3: a task that tasks/cancel canceled with success while its message/send
\* was inside Execute is still canceled once that message/send has returned.
C3_CancelSurvivesExecute ==
  \A id \in canceledInExec : pc[id] = "done" => Stored(id).State = TaskStateCanceled

\* C4: tasks/cancel on a task in one of the four terminal states answers
\* TaskNotCancelable; on any other task it answers {canceled: true}.
C4_CancelOutcome ==
  (cpc = "idle" /\ cseen # "")
    => /\ cseen \in TerminalStates => cresp.Code = ErrTaskNotCancelable
       /\ cseen \notin TerminalStates => cresp = CancelTaskOK

\* C5: a streaming execution sends exactly one terminal event (complete or
\* error) on the output channel: never more than one, and one once the call
\* has returned and the output reader has finished.
C5_OneTerminalEvent ==
  /\ Cardinality(TerminalEvents) <= 1
  /\ (mpc \in {"returned", "closed"} /\ rpc \in {"none", "done"})
       => Cardinality(TerminalEvents) = 1

\* C6: the caller's terminal event is the last event sent on the output
\* channel, and no goroutine sends on the channel after it has been closed.
C6_NothingAfterTerminal ==
  /\ \A i \in 1..Len(sent) : sent[i].By = "caller" => i = Len(sent)
  /\ ~panicked

\* C11: after any sequence of TaskManager.Create and UpdateStatus calls,
\* loading tasks.json yields for every stored task a record equal to the one
\* in memory.
C11_PersistRoundTrip ==
  \A id \in TaskIds :
    /\ Get(id) # 0 => LoadedTask(id) = Stored(id)
    /\ Get(id) = 0 => id \notin LoadedIds

\* C12: the pages of hub/tasks/list taken at offsets 0, limit, 2*limit, ...
\* from an unchanged store list the matching tasks in the order they were
\* created: the pages so far, joined, are the first matching tasks in
\* creation order, and they are all of them once a page came back short.
C12_PagesInCreationOrder ==
  LET all == Matching(listReq.ContextID, listReq.State)
      listed == Flatten(pages)
  IN /\ Len(listed) <= Cardinality(all)
     /\ \A i \in 1..Len(listed) :
          /\ listed[i] \in all
          /\ Cardinality({id \in all : Get(id) < Get(listed[i])}) = i - 1
     /\ (\E k \in 1..Len(pages) : Len(pages[k]) < listReq.Limit)
          => Len(listed) = Cardinality(all)

\* C13: on one connection every request line the server has taken is
\* answered by one response line, in order: the k-th response answers the
\* k-th line (ParseError for a line that is not JSON, the line's id
\* otherwise), and a line is taken only after the response to the one before
\* it has been written.
C13_OneResponsePerLine ==
  /\ Len(connOut) = IF tpc \in {"handle", "write"} THEN nread - 1 ELSE nread
  /\ \A k \in 1..Len(connOut) :
       IF lines[k].JSON
       THEN connOut[k].ID = lines[k].ID /\ connOut[k].Code # ErrParseError
       ELSE connOut[k].Code = ErrParseError

\* C14: a request line longer than 1 MiB that the server has taken is
\* answered with a ParseError response.
C14_LongLineParseError ==
  \A k \in 1..nread :
    lines[k].Size > 1024
      => /\ tpc # "closed" \/ k <= Len(connOut)
         /\ k <= Len(connOut) => connOut[k].Code = ErrParseError

\* C15: Handle answers InvalidRequest when jsonrpc is not "2.0" or the
\* method is empty, MethodNotFound when the method is not registered, in
\* that order and without calling a handler function, and otherwise what the
\* called function returned; the response carries the request's id.
C15_HandleResponse ==
  \A i \in 1..Len(handled) :
    LET h == handled[i]
    IN /\ h.Resp.ID = h.Req.ID
       /\ IF h.Req.JSONRPC # "2.0" \/ h.Req.Method = ""
          THEN h.Resp.Code = ErrInvalidRequest /\ ~h.Invoked
          ELSE IF h.Req.Method \notin Methods
          THEN h.Resp.Code = ErrMethodNotFound /\ ~h.Invoked
          ELSE /\ h.Invoked
               /\ h.Resp.Code = h.Ret.Err
               /\ h.Resp.Result = h.Ret.Result

\* C15 witness: Handle has answered InvalidRequest to a request whose method
\* is not registered either, MethodNotFound to another, and a handler
\* function's error to a third.
C15_Witness ==
  /\ \E i \in 1..Len(handled) :
       /\ handled[i].Req.JSONRPC # "2.0"
       /\ handled[i].Req.Method = "no/such"
       /\ handled[i].Resp.Code = ErrInvalidRequest
  /\ \E i \in 1..Len(handled) : handled[i].Resp.Code = ErrMethodNotFound
  /\ \E i \in 1..Len(handled) :
       handled[i].Invoked /\ handled[i].Resp.Code = ErrInvalidParams

\* C16: the static orchestrator sends fragment i (from 0, in fragment order)
\* to delegates[i mod len(delegates)], naming that delegate as targetAgent,
\* and its reply has one block per fragment, in fragment order, each headed
\* by the id of the delegate the fragment went to, with a blank line between
\* blocks.
C16_RoundRobin ==
  /\ \A k \in 1..Len(ocalls) :
       /\ ocalls[k].Text = oparts[k]
       /\ ocalls[k].TargetAgent =
            ocalls[k].Delegates[((k - 1) % Len(ocalls[k].Delegates)) + 1]
  /\ opc = "done"
       => /\ Len(ocalls) = Len(oparts)
          /\ LET blocks == Split(oreply, "\n\n")
             IN /\ Len(blocks) = Len(oparts)
                /\ \A k \in 1..Len(blocks) :
                     /\ Len(blocks[k]) >= 3
                     /\ blocks[k][1] = ocalls[k].TargetAgent
                     /\ blocks[k][2] = ": "

\* C16 witness: three fragments went to two delegates and the reply is out.
C16_Witness ==
  /\ opc = "done"
  /\ Len(oparts) = 3
  /\ nset = 0
  /\ agentIDs = <<"x", "y">>
  /\ <<ocalls[1].TargetAgent, ocalls[2].TargetAgent, ocalls[3].TargetAgent>>
       = <<"x", "y", "x">>

\* C17: for the prompt "a", newline, "b and c" and the delegates [x, y], the
\* static orchestrator sends the sub-prompts "a", "b", "c" to x, y, x.
C17_SplitExample ==
  (/\ opc = "done"
   /\ oprompt = <<"a", "\n", "b", " and ", "c">>
   /\ agentIDs = <<"x", "y">>
   /\ nset = 0)
    => /\ Len(ocalls) = 3
       /\ \A k \in 1..3 :
            /\ ocalls[k].Text = <<(<<"a", "b", "c">>)[k]>>
            /\ ocalls[k].TargetAgent = (<<"x", "y", "x">>)[k]

\* The targets of the router's plan that name a delegate, in plan order.
ValidTargets == SelectSeq(oroute.Targets, LAMBDA t : Contains(agentIDs, t.AgentID))

\* The messages the LLM orchestrator has sent after the one to its router.
Dispatches == SubSeq(ocalls, 2, Len(ocalls))

\* C18: whatever the router replies, every message the LLM orchestrator
\* sends after routing goes to a configured delegate, a target without a
\* message gets the original prompt, and at most three are sent.
C18_DispatchesToDelegates ==
  /\ Len(Dispatches) <= 3
  /\ \A k \in 1..Len(Dispatches) :
       /\ Contains(agentIDs, Dispatches[k].TargetAgent)
       /\ ValidTargets # <<>>
            => /\ Dispatches[k].TargetAgent = ValidTargets[k].AgentID
               /\ Dispatches[k].Text = IF ValidTargets[k].Message = <<>>
                                       THEN TrimSpace(oprompt)
                                       ELSE ValidTargets[k].Message

\* C18 witness: a plan of four targets, one of them unknown and one without
\* a message, has been carried out with two dispatches, the first with the
\* original prompt.
C18_Witness ==
  /\ opc = "done"
  /\ Len(oroute.Targets) = 4
  /\ \E k \in 1..4 : oroute.Targets[k].AgentID = "q"
  /\ Len(Dispatches) = 2
  /\ oroute.Targets[1].Message = <<>>
  /\ Dispatches[1].Text = <<"a">>

\* C19: when the router call fails, its reply holds no plan, or the plan has
\* no valid target, the LLM orchestrator sends the original prompt to
\* delegates[0] and nothing else, its reply holds the routing-fallback note,
\* and Execute returns a completed result.
C19_FallbackWithNote ==
  (/\ opc = "done"
   /\ routeErr(oroute) \/ ValidTargets = <<>>)
    => /\ Len(Dispatches) = 1
       /\ Dispatches[1].TargetAgent = agentIDs[1]
       /\ Dispatches[1].Text = TrimSpace(oprompt)
       /\ Contains(oreply, "note: routing fallback used")

\* C20: when the record of an id is replaced by a new instance, the
\* instance it replaces has had its Shutdown invoked by then; there is one
\* record per id, the new instance.
C20_ShutdownBeforeReplace ==
  [][\A id \in AgentIds :
       (agents[id] # NoAgent /\ agents'[id] # agents[id])
         => /\ agents'[id].ID = id
            /\ agents[id].N \in shutdowns']_vars

\* C21: running the shutdown steps a second time neither fails nor panics,
\* and leaves everything as the first run left it.
C21_ShutdownIdempotent ==
  /\ spc # "panic"
  /\ (nshutdown = 2 /\ spc = "done")
       => (stopCh = "closed" /\ ~pidFile /\ runCtx = "canceled")

\* C22: a tasks/cancel that answers {canceled: true} has invoked Cancel of
\* the task's agent by the time it returns.
C22_CancelSignalsAgent ==
  [][(cpc = "writeTimestamp" /\ cpc' = "idle") => cid \in agentCancels']_vars

\* The event sequences a whole Execute may write for a request: one final
\* failed event when the target is missing or not registered; otherwise
\* submitted when no task is stored, working, and one final event, completed
\* or failed.
EventSequences(r) ==
  IF r.TargetAgent = "" \/ r.TargetAgent \notin Registry
  THEN {<<StatusUpdateEvent(TaskStateFailed, TRUE)>>}
  ELSE {(IF r.StoredTask THEN <<>> ELSE <<StatusUpdateEvent(TaskStateSubmitted, FALSE)>>)
          \o <<StatusUpdateEvent(TaskStateWorking, FALSE), StatusUpdateEvent(s, TRUE)>> :
        s \in {TaskStateCompleted, TaskStateFailed}}

\* C26 as stated: the events written are always the beginning of such a
\* sequence, and every Execute that has returned has written all of it.
C26_EveryExecuteEndsFinal ==
  /\ equeue # <<>> => \E es \in EventSequences(ereq) : IsPrefix(equeue, es)
  /\ epc = "done" => equeue \in EventSequences(ereq)

\* C26, amended: the events written are always the beginning of such a
\* sequence, so nothing follows a final event; an Execute that returns no
\* error has written all of it; an Execute whose write to the queue fails
\* returns that error and has written no final event.
C26_EventOrder ==
  /\ equeue # <<>> => \E es \in EventSequences(ereq) : IsPrefix(equeue, es)
  /\ (epc = "done" /\ eerr = "") => equeue \in EventSequences(ereq)
  /\ (epc = "done" /\ eerr # "") => \A i \in 1..Len(equeue) : ~equeue[i].Final

\* C26 witness: an Execute for a new task has returned after submitted,
\* working and a final failed event.
C26_Witness ==
  /\ epc = "done"
  /\ eerr = ""
  /\ ~ereq.StoredTask
  /\ Len(equeue) = 3
  /\ equeue[3] = StatusUpdateEvent(TaskStateFailed, TRUE)

\* C23: a message/send that names a registered agent whose recorded health
\* is unhealthy is answered with AgentUnavailable and goes no further.
C23_UnhealthyRefused ==
  [][\A p \in TaskSenders :
       (/\ pc[p] = "start" /\ pc'[p] # "start"
        /\ ValidateSendNoLookup(req'[p]).Code = 0
        /\ req'[p].TargetAgent \in Registry
        /\ health[req'[p].TargetAgent] = "unhealthy")
         => (resp'[p].Code = ErrAgentUnavailable /\ pc'[p] = "done")]_vars

\* Texts that describe a deadline.
DeadlineTexts == {"context deadline exceeded", "deadline exceeded"}

\* C24: a message/send with a timeout whose execution outlived it returns the
\* RPC error Timeout, and its task is failed with an agent message that
\* describes the deadline.
C24_TimeoutError ==
  \A p \in TaskSenders :
    (expired[p] /\ pc[p] = "done")
      => /\ resp[p].Code = ErrTimeout
         /\ Stored(p).State = TaskStateFailed
         /\ Stored(p).Message.Role = "agent"
         /\ Stored(p).Message.Text \in DeadlineTexts

\* The user message of sender p, as an entry of a context's history.
UserMessage(p) == MaxAddMessages + p

\* C30: once message/send has created its task, and from then on, the
\* history of the task's context holds the user message.
C30_UserMessageInHistory ==
  \A p \in TaskSenders :
    (pc[p] = "working" \/ InExecuteOrLater(p) \/ (pc[p] = "done" /\ task[p] # 0))
      => \E i \in 1..Len(GetHistory(contextID[p])) :
           GetHistory(contextID[p])[i] = UserMessage(p)

\* C25: a call of a CLI agent whose user message has only blank text fails
\* with the empty-prompt error and does not start the executable.
C25_BlankPromptRefused ==
  (xpc # "idle" /\ TrimSpace(extractPrompt(xparts)) = <<>>)
    => (xerr = "empty prompt" /\ ~spawned)

\* The eight task states that have a namesake in the A2A dialect.
NamedStates == TaskState \ {TaskStateUnknown}

\* C27: translating a task state to the A2A dialect and back is the
\* identity for the eight named states; unknown becomes the unspecified
\* marker; every state of the dialect outside the eight becomes unknown. A
\* task saved through the adapter is fetched in the state it was saved in
\* when that is one of the eight, and unspecified otherwise.
C27_StateRoundTrip ==
  [][/\ \A s \in NamedStates :
          /\ toSDKTaskState(s) = SDK(s)
          /\ a2a_fromSDKTaskState(toSDKTaskState(s)) = s
     /\ toSDKTaskState(TaskStateUnknown) = TaskStateUnspecified
     /\ \A e \in SDKTaskStates :
          e \notin {SDK(s) : s \in NamedStates} => a2a_fromSDKTaskState(e) = TaskStateUnknown
     /\ (sdkGot' # sdkGot /\ sdkSaved[sdkGot'.ID] # NoSDKState)
          => sdkGot'.State = IF sdkSaved[sdkGot'.ID] \in {SDK(s) : s \in NamedStates}
                             THEN sdkSaved[sdkGot'.ID]
                             ELSE TaskStateUnspecified]_vars

\* C27 witness: a task saved as auth-required has been fetched as
\* auth-required, and one saved in a state the dialect does not define is
\* stored as unknown.
C27_Witness ==
  /\ sdkGot.ID # 0
  /\ sdkSaved[sdkGot.ID] = SDK("auth-required")
  /\ sdkGot.State = SDK("auth-required")
  /\ \E id \in TaskIds :
       sdkSaved[id] = SDK("paused") /\ Stored(id).State = TaskStateUnknown

\* C28: every write to a stored task's status is made under the
\* TaskManager lock, that is, as one UpdateStatus of that task: a step that
\* changes a task object already in the store changes its state, message
\* and timestamp together and nothing else, the writes of tasks/cancel and
\* of message/send after the agent returned included.
C28_WritesUnderLock ==
  [][\A i \in 1..Len(heap) :
       heap'[i] # heap[i]
         => \E id \in TaskIds :
              /\ tasks[id] = i
              /\ UpdateStatus(id, heap'[i].State, heap'[i].Message)]_vars

\* C29: when tasks/cancel returns {canceled: true}, tasks.json records the
\* task as canceled, so that a store loaded from the file answers tasks/get
\* with state canceled.
C29_CancelDurable ==
  [][(cpc = "writeTimestamp" /\ cresp' = CancelTaskOK)
       => /\ LoadedTask(cid)' # NoTask
          /\ LoadedTask(cid)'.State = TaskStateCanceled]_vars

\* C31: AgentRegistry.Get and List always eventually return while a health
\* sweep is in progress, even when a probed agent's executable never exits.
C31_LookupsReturn ==
  \A l \in Lookups : (lpc[l] = "blocked") ~> (lpc[l] = "returned")

\* C32: the fan-out of the static orchestrator is bounded by one deadline
\* fixed when Execute starts: a sub-call is started only before that
\* deadline, and the timeout it is given is what remains of the deadline.
C32_SharedDeadline ==
  [][ocalls' # ocalls
       => /\ oclock < odeadline
          /\ osub'.Timeout = odeadline - oclock]_vars

\* C33: after a settings mutator of a backend has changed the stored
\* settings, the default configuration of that backend's agent is the
\* configuration derived from the stored settings, for all four backends.
C33_AgentsFollowSettings ==
  [][\A b \in Backends :
       settings'[b] # settings[b] => defaultConfig'[b] = GetConfig(settings'[b])]_vars

\* C34: the status timestamp of a stored task never decreases, at any point
\* during or after message/send and tasks/cancel, the merge of the agent's
\* returned status into the stored task included.
C34_TimestampMonotonic ==
  [][\A id \in TaskIds :
       (tasks[id] # 0 /\ tasks'[id] # 0)
         => heap'[tasks'[id]].Timestamp >= heap[tasks[id]].Timestamp]_vars

\* C35: Orchestrator.Execute never divides by zero when SetDelegates runs
\* concurrently with it: every fragment is routed using a delegate list that
\* is not empty.
C35_DelegatesNeverEmpty ==
  /\ opc # "panic"
  /\ \A k \in 1..Len(ocalls) : ocalls[k].Delegates # <<>>

\* C36: the chain of nested message/send calls the orchestrator issues to
\* itself is finite. Execute is a function of its prompt and the delegate
\* list, so the chain is finite exactly when no nested Execute is handed the
\* prompt of an Execute that is waiting for it.
C36_ChainFinite ==
  \A i \in 1..Len(frames), j \in 1..Len(frames) :
    i < j => frames[i].Prompt # frames[j].Prompt

\* ExecuteStreaming has returned, and the helper goroutines it started, if
\* any, have returned.
StreamingOver ==
  /\ mpc \in {"returned", "closed"}
  /\ rpc = "none" \/ (rpc = "done" /\ fpc = "done")

\* C37: provided the child exits and the consumer keeps receiving,
\* ExecuteStreaming returns and the output reader and the input forwarder
\* terminate, also when the input channel is never closed and when the
\* child exits with an error.
C37_StreamingTerminates == <>StreamingOver

\* What holds instead: the execution is over, or the output reader has
\* panicked on the closed output channel.
StreamingOverOrPanicked == <>(StreamingOver \/ panicked)

\* C38: hub/tasks/list returns a list and never crashes the handler, for
\* every integer limit and offset, negative ones included.
C38_ListNeverCrashes == ~lcrashed

\* Is the k-th block of the reply the report of a failed sub-call?
IsErrorBlock(k) == oresults[k][3] = "error: "

\* C39: the static orchestrator returns a completed result whenever the
\* prompt is not empty and a delegate is configured, also when sub-calls
\* fail: Execute fails only on an empty prompt or an empty delegate list,
\* every turn of the loop leaves a block in its fragment's position, headed
\* by the delegate's id and holding the text or "error: ...", the loop goes
\* on after a failed sub-call, and the reply holds one block per fragment.
C39_FailuresDoNotStop ==
  /\ opc = "failed" => (TrimSpace(oprompt) = <<>> \/ agentIDs = <<>>)
  /\ opc = "panic" => agentIDs = <<>>
  /\ Len(ocalls) = oi /\ Len(oresults) = oi
  /\ \A k \in 1..Len(oresults) :
       /\ ocalls[k].Text = oparts[k]
       /\ \E body \in SubCallBodies : oresults[k] = <<ocalls[k].TargetAgent, ": ">> \o body
  /\ opc = "done"
       => /\ oi = Len(oparts)
          /\ Split(oreply, "\n\n") = oresults

\* C39 witness: the reply is out for three fragments; the sub-calls of the
\* first two failed and the one of the last did not.
C39_Witness ==
  /\ opc = "done"
  /\ Len(oparts) = 3
  /\ IsErrorBlock(1) /\ IsErrorBlock(2) /\ ~IsErrorBlock(3)
  /\ Len(Split(oreply, "\n\n")) = 3

\* C7: for every context, what a GetHistory returned is a prefix of what any
\* later GetHistory returns.
C7_HistoryPrefixStable ==
  \A id \in ContextIds : IsPrefix(seen[id], GetHistory(id))

\* C8: when Execute returns an error, message/send records the failure: as
\* it returns, the stored task is failed with an agent message whose text is
\* the error text, and the response is InternalError with the same text.
C8_FailureRecorded ==
  [][\A p \in Senders :
       /\ (pc[p] = "exec" /\ pc'[p] # "exec" /\ result'[p].Err # "")
            => pc'[p] = "fail"
       /\ (pc[p] = "fail" /\ pc'[p] # "fail")
            => /\ pc'[p] = "done"
               /\ Stored(p)'.State = TaskStateFailed
               /\ Stored(p)'.Message = [Role |-> "agent", Text |-> result[p].Err]
               /\ resp'[p].Code = ErrInternalError
               /\ resp'[p].Text = result[p].Err]_vars

\* C8 witness: a message/send has returned InternalError and its stored task
\* is failed with the error text, after a tasks/cancel had canceled it.
C8_Witness ==
  \E p \in Senders :
    /\ pc[p] = "done"
    /\ resp[p].Code = ErrInternalError
    /\ p \in canceledInExec
    /\ Stored(p).State = TaskStateFailed
    /\ Stored(p).Message = AgentMessage(resp[p].Text)

\* C9: a message/send whose kind is not "message" or whose targetAgent is
\* missing or empty returns InvalidParams, one whose targetAgent is not
\* registered returns AgentNotFound, and neither changes the task store or
\* the context store.
C9_RejectedUntouched ==
  [][\A p \in Senders :
       (pc[p] = "start" /\ pc'[p] # "start")
         => LET r == req'[p]
                malformed == r.Kind # "message" \/ ~r.HasMetadata \/ r.TargetAgent = ""
            IN /\ malformed
                    => /\ pc'[p] = "done"
                       /\ resp'[p].Code = ErrInvalidParams
                       /\ UNCHANGED <<tasks, heap, contexts, ctxDisk>>
               /\ (~malformed /\ r.TargetAgent \notin Registry)
                    => /\ pc'[p] = "done"
                       /\ resp'[p].Code = ErrAgentNotFound
                       /\ UNCHANGED <<tasks, heap, contexts, ctxDisk>>]_vars

\* C9 witness: one call was answered InvalidParams and another AgentNotFound,
\* and no task exists.
C9_Witness ==
  /\ \E p \in Senders : pc[p] = "done" /\ resp[p].Code = ErrInvalidParams
  /\ \E p \in Senders : pc[p] = "done" /\ resp[p].Code = ErrAgentNotFound
  /\ \A id \in TaskIds : tasks[id] = 0

\* C10: when message/send has returned a task, the task's context id is the
\* one the message named, or the generated one if it named none, and that
\* context exists in the context store.
C10_ContextExists ==
  \A p \in Senders :
    (pc[p] = "done" /\ resp[p].Code = 0)
      => /\ resp[p].Task.ContextID =
              IF req[p].ContextID # 0 THEN req[p].ContextID ELSE NewContextID(p)
         /\ contexts[resp[p].Task.ContextID].Exists

\* C10 witness: a call that named a context has returned a task.
C10_Witness ==
  \E p \in Senders :
    /\ pc[p] = "done"
    /\ resp[p].Code = 0
    /\ req[p].ContextID # 0
    /\ resp[p].Task.ContextID = req[p].ContextID

====
